---- MODULE Spec2Model ----
(***************************************************************************)
(* Duotone processing engine of Brave Pink Hero Green 1312.                *)
(*                                                                         *)
(* The engine draws an image onto a canvas, measures its luminance range,  *)
(* and either remaps every pixel between a shadow and a highlight colour   *)
(* (continuous mode) or renders a 45-degree raster with joined areas      *)
(* (raster mode).                                                          *)
(*                                                                         *)
(* Numbers.  The source computes in IEEE doubles.  Here a real in [0,1]    *)
(* is a fixed-point integer in 0..FP (units of 1/FP), a luminance is an    *)
(* integer in units of 1/5000 (the Rec. 709 weights 0.2126, 0.7152 and     *)
(* 0.0722 are 1063, 3576 and 361 such units, exactly), and a coordinate    *)
(* of the rotated raster grid is an integer in units of 1/FP pixel.        *)
(* Math.pow on [0,1] is computed by integer root finding followed by       *)
(* repeated fixed-point multiplication.  Infinity and NaN, which the       *)
(* source produces for degenerate raster settings, are the values Inf and  *)
(* NaN below and propagate as IEEE arithmetic propagates them.             *)
(***************************************************************************)
EXTENDS Integers, Sequences, FiniteSets, TLC

VARIABLES
    canvas,     \* the target HTMLCanvasElement: [width, height, data]
    last,       \* the last processImageOnCanvas call: its arguments and what it did
    dirty,      \* whether the canvas held a visible pixel when the last call began
    dimCall,    \* the last calculateDimensions call: its arguments and its result
    palette,    \* the module's colour objects, which the colour selection reads
    pipe,       \* the frame of an applyRasterizationPipeline call run step by step
    curveCall,  \* the last enhanceContrast call: its argument and its result
    jobs,       \* the processDuotoneImage calls made: image, object URL and promise
    page,       \* the state of the Index page and the object URLs handed to it
    screen      \* the frame of an applyHalftoneEffect call run cell by cell

vars == <<canvas, last, dirty, dimCall, palette, pipe, curveCall, jobs, page, screen>>

(***************************************************************************)
(* Bounds of the model.                                                    *)
(***************************************************************************)
\* resolution of the fixed-point reals: 1/FP
FP == 1000
\* largest width and height of an image of a single call
MaxW == 2
MaxH == 2
\* largest width and height of a uniform image of a single call
MaxFlatW == 2
MaxFlatH == 13
\* largest width and height of a black-and-white image of a single raster call
MaxGridW == 4
MaxGridH == 5
\* largest width and height of an image of a pipeline call run step by step
MaxStageW == 2
MaxStageH == 2
\* largest width of the one-row images of a sequence of calls
\* the number of processDuotoneImage calls made
MaxJobs == 2

\* the number of object URLs handed to the Index page
MaxUrls == 3

\* the largest image painted by applyHalftoneEffect: one pixel more than a
\* cell of 12 pixels
MaxScreenW == 13
MaxScreenH == 13

MaxSeqW == 2
\* calculateDimensions is tried on 1..MaxSmallDim and on DimSamples
MaxSmallDim == 4

(***************************************************************************)
(* Arithmetic helpers.                                                     *)
(***************************************************************************)
Min2(a, b) == IF a < b THEN a ELSE b
Max2(a, b) == IF a > b THEN a ELSE b

\* Math.floor(a / b) for integers a and b # 0
FloorDiv(a, b) == IF b > 0 THEN a \div b ELSE (-a) \div (-b)

\* Math.floor(n / d) for d > 0
RoundDivFloor(n, d) == (n - (n % d)) \div d
\* Math.round(n / d) for d > 0: the nearest integer, ties towards +Infinity
RoundDiv(n, d) == (2 * n + d) \div (2 * d)

\* the element of a one-element set: binds a computed value once
Only(S) == CHOOSE x \in S : TRUE

\* Math.max(0, Math.min(1, v)) on fixed-point reals
Clamp01(v) == Max2(0, Min2(FP, v))

\* Math.floor(Math.sqrt(n)) for 0 <= n
RECURSIVE SqrtSearch(_, _, _)
SqrtSearch(n, lo, hi) ==
    IF lo >= hi THEN lo
    ELSE LET mid == (lo + hi + 1) \div 2
         IN  IF mid * mid <= n THEN SqrtSearch(n, mid, hi)
                               ELSE SqrtSearch(n, lo, mid - 1)
ISqrt(n) == SqrtSearch(n, 0, Min2(n, 46340))

\* x^n for a fixed-point x in [0,1] and an integer n >= 0
RECURSIVE IntPow(_, _)
IntPow(x, n) == IF n = 0 THEN FP ELSE (x * IntPow(x, n - 1)) \div FP

\* the largest fixed-point r in [0,1] with r^d <= x: the d-th root of x
RECURSIVE RootSearch(_, _, _, _)
RootSearch(x, d, lo, hi) ==
    IF lo >= hi THEN lo
    ELSE LET mid == (lo + hi + 1) \div 2
         IN  IF IntPow(mid, d) <= x THEN RootSearch(x, d, mid, hi)
                                    ELSE RootSearch(x, d, lo, mid - 1)
Root(x, d) == IF d = 1 THEN x ELSE RootSearch(x, d, 0, FP)

\* Math.pow(x, n/d) for a fixed-point x in [0,1] and integers n >= 0, d >= 1:
\* x^(n div d) times the d-th root of x to the power n mod d
Pow(x, n, d) == (IntPow(x, n \div d) * IntPow(Root(x, d), n % d)) \div FP

RECURSIVE Gcd(_, _)
Gcd(a, b) == IF b = 0 THEN a ELSE Gcd(b, a % b)

(***************************************************************************)
(* Module constants of the source.                                         *)
(***************************************************************************)
OPTIMIZED_SHADOW_COLOR == [r |-> 22, g |-> 80, b |-> 39]
OPTIMIZED_HIGHLIGHT_COLOR == [r |-> 249, g |-> 159, b |-> 210]
CLASSIC_SHADOW_COLOR == [r |-> 27, g |-> 96, b |-> 47]
CLASSIC_HIGHLIGHT_COLOR == [r |-> 247, g |-> 132, b |-> 197]
MAX_DIMENSION == 3000

\* the four colour objects as the module creates them
ColorTables ==
    [optimized |-> [shadow |-> OPTIMIZED_SHADOW_COLOR,
                    highlight |-> OPTIMIZED_HIGHLIGHT_COLOR],
     classic   |-> [shadow |-> CLASSIC_SHADOW_COLOR,
                    highlight |-> CLASSIC_HIGHLIGHT_COLOR]]

(***************************************************************************)
(* calculateDimensions.  scale = MAX_DIMENSION / max(w, h) and             *)
(* Math.round(w * scale) are computed as the rounded quotient              *)
(* w * MAX_DIMENSION / max(w, h).                                          *)
(***************************************************************************)
\* variant: Math.floor in place of Math.round
calculateDimensionsFloor(originalWidth, originalHeight) ==
    IF originalWidth <= MAX_DIMENSION /\ originalHeight <= MAX_DIMENSION
    THEN [width |-> originalWidth, height |-> originalHeight]
    ELSE LET m == Max2(originalWidth, originalHeight)
         IN  [width  |-> RoundDivFloor(originalWidth * MAX_DIMENSION, m),
              height |-> RoundDivFloor(originalHeight * MAX_DIMENSION, m)]

calculateDimensions(originalWidth, originalHeight) ==
    IF originalWidth <= MAX_DIMENSION /\ originalHeight <= MAX_DIMENSION
    THEN [width |-> originalWidth, height |-> originalHeight]
    ELSE LET m == Max2(originalWidth, originalHeight)
         IN  [width  |-> RoundDiv(originalWidth * MAX_DIMENSION, m),
              height |-> RoundDiv(originalHeight * MAX_DIMENSION, m)]

(***************************************************************************)
(* Pixels, images and the canvas.  A pixel is [r, g, b, a], each 0..255;   *)
(* data is the row-major sequence of the pixels (pixelIndex + 1 indexes    *)
(* it).                                                                    *)
(***************************************************************************)
Px(r, g, b, a) == [r |-> r, g |-> g, b |-> b, a |-> a]
TransparentBlack == Px(0, 0, 0, 0)

\* a value stored into a Uint8ClampedArray
ClampByte(v) == Max2(0, Min2(255, v))

MkImage(w, h, data) == [naturalWidth |-> w, naturalHeight |-> h, data |-> data]

\* variant: the size is assigned only when it changes, so an equal size keeps
\* the bitmap
ResizeCanvasKeep(c, width, height) ==
    IF c.width = width /\ c.height = height
    THEN c
    ELSE [width |-> width, height |-> height,
          data |-> [i \in 1..(width * height) |-> TransparentBlack]]

\* canvas.width = width; canvas.height = height: assigning the size clears
\* the bitmap to transparent black, whatever it held
ResizeCanvas(c, width, height) ==
    [width |-> width, height |-> height,
     data |-> [i \in 1..(width * height) |-> TransparentBlack]]

\* source-over compositing of one pixel
Composite(src, dst) ==
    IF src.a = 255 \/ dst.a = 0 THEN src
    ELSE IF src.a = 0 THEN dst
    ELSE LET oa == src.a + (dst.a * (255 - src.a)) \div 255
             mix(s, d) == (s * src.a + ((d * dst.a) \div 255) * (255 - src.a)) \div oa
         IN  Px(ClampByte(mix(src.r, dst.r)), ClampByte(mix(src.g, dst.g)),
                ClampByte(mix(src.b, dst.b)), ClampByte(oa))

\* ctx.drawImage(img, 0, 0, width, height): the image, resampled to
\* width x height (nearest source pixel), composited over the bitmap; an
\* image without area draws nothing
DrawImage(c, img, width, height) ==
    IF img.naturalWidth = 0 \/ img.naturalHeight = 0 THEN c
    ELSE [c EXCEPT !.data =
            [i \in 1..(width * height) |->
                LET x  == (i - 1) % width
                    y  == (i - 1) \div width
                    sx == (x * img.naturalWidth) \div width
                    sy == (y * img.naturalHeight) \div height
                IN  Composite(img.data[sy * img.naturalWidth + sx + 1], c.data[i])]]

\* variant: a read of an empty rectangle returns empty data
GetImageDataThrowsNever(width, height) == FALSE
\* ctx.getImageData(0, 0, width, height) throws IndexSizeError when width or
\* height is 0
GetImageDataThrows(width, height) == width = 0 \/ height = 0

(***************************************************************************)
(* Luminance (Rec. 709), in units of 1/5000, and the min/max pass.         *)
(***************************************************************************)
\* the luminance of a pixel with r = g = b = 1
LumUnit == 1063 + 3576 + 361
Luminance(p) == 1063 * p.r + 3576 * p.g + 361 * p.b

\* a / b rounded towards zero, for b > 0
TruncDiv(a, b) == IF a >= 0 THEN a \div b ELSE 0 - ((0 - a) \div b)

\* grayscaleData is a Float32Array: the element written holds the float
\* nearest to the luminance.  An element is represented by the luminance
\* written, and its value is that luminance plus Float32Excess, the
\* difference Math.fround(l) - l in units of 1e-9 (a float has 24
\* significant bits: with 2^e <= l < 2^(e+1) it is a multiple of 2^(e-23),
\* the nearest one, the even one on a tie).
Float32Exponent(luminance) ==
    CHOOSE e \in (0 - 4)..7 :
        IF e >= 0
        THEN LumUnit * 2^e <= luminance /\ luminance < LumUnit * 2^(e + 1)
        ELSE LumUnit <= luminance * 2^(0 - e) /\ luminance * 2^(0 - e) < 2 * LumUnit
Float32Excess(luminance) ==
    IF luminance <= 0 THEN 0
    ELSE LET k == 23 - Float32Exponent(luminance)
             m == ((luminance % (2 * LumUnit)) * (2^k % (2 * LumUnit))) % (2 * LumUnit)
             r == m % LumUnit
         IN  IF 2 * r < LumUnit \/ (2 * r = LumUnit /\ m < LumUnit)
             THEN 0 - ((r * (1000000000 \div LumUnit)) \div 2^k)
             ELSE ((LumUnit - r) * (1000000000 \div LumUnit)) \div 2^k

\* the running minimum after the pass over pixels i, i + 1, ...: the least of
\* the starting value and the luminances met
MinLuminanceFrom(data, i, minLuminance) ==
    LET met == { minLuminance } \cup { Luminance(data[k]) : k \in i..Len(data) }
    IN  CHOOSE m \in met : \A other \in met : m <= other

\* the running maximum after the pass over pixels i, i + 1, ...
MaxLuminanceFrom(data, i, maxLuminance) ==
    LET met == { maxLuminance } \cup { Luminance(data[k]) : k \in i..Len(data) }
    IN  CHOOSE m \in met : \A other \in met : m >= other

\* variant: minLuminance starts at 0
MinLuminanceFromZero(data) == MinLuminanceFrom(data, 1, 0)
\* let minLuminance = 255; let maxLuminance = 0; and the single pass
MinLuminance(data) == MinLuminanceFrom(data, 1, 255 * LumUnit)
\* variant: maxLuminance starts at 255
MaxLuminanceFromWhite(data) == MaxLuminanceFrom(data, 1, 255 * LumUnit)
MaxLuminance(data) == MaxLuminanceFrom(data, 1, 0)

\* maxLuminance - minLuminance || 1
LuminanceRange(minLuminance, maxLuminance) ==
    IF maxLuminance - minLuminance = 0 THEN LumUnit
    ELSE maxLuminance - minLuminance

\* variant: minLuminance is not subtracted
NormalizeNoMin(luminance, minLuminance, luminanceRange) ==
    Clamp01(FloorDiv(luminance * FP, luminanceRange))

\* Math.max(0, Math.min(1, (luminance - minLuminance) / luminanceRange))
Normalize(luminance, minLuminance, luminanceRange) ==
    Clamp01(FloorDiv((luminance - minLuminance) * FP, luminanceRange))

(***************************************************************************)
(* enhanceContrast: the S-curve with exponent 1.8 = 9/5.                   *)
(***************************************************************************)
\* variant: the upper branch does not halve the power
enhanceContrastUnhalved(value) ==
    IF 2 * value < FP
    THEN Pow(2 * value, 9, 5) \div 2
    ELSE FP - Pow(2 * (FP - value), 9, 5)

\* variant: the upper branch adds the power instead of subtracting it
enhanceContrastPlus(value) ==
    IF 2 * value < FP
    THEN Pow(2 * value, 9, 5) \div 2
    ELSE FP + Pow(2 * (FP - value), 9, 5) \div 2

enhanceContrast(value) ==
    IF 2 * value < FP
    THEN Pow(2 * value, 9, 5) \div 2
    ELSE FP - Pow(2 * (FP - value), 9, 5) \div 2

(***************************************************************************)
(* Colour selection and the continuous (regular duotone) branch.           *)
(***************************************************************************)
\* baseColors, read from the module's colour objects `colors`
BaseColors(colors, useClassicColors) ==
    IF useClassicColors THEN colors.classic ELSE colors.optimized

\* variant: the reverse setting is not looked at
ShadowColorUnreversed(colors, isReversed, useClassicColors) ==
    BaseColors(colors, useClassicColors).shadow

ShadowColor(colors, isReversed, useClassicColors) ==
    IF isReversed THEN BaseColors(colors, useClassicColors).highlight
                  ELSE BaseColors(colors, useClassicColors).shadow

\* variant: the reverse setting is not looked at
HighlightColorUnreversed(colors, isReversed, useClassicColors) ==
    BaseColors(colors, useClassicColors).highlight

HighlightColor(colors, isReversed, useClassicColors) ==
    IF isReversed THEN BaseColors(colors, useClassicColors).shadow
                  ELSE BaseColors(colors, useClassicColors).highlight

\* Math.round(shadow + t * (highlight - shadow)), stored into the byte array
MapChannel(shadow, highlight, t) ==
    ClampByte(RoundDiv(shadow * FP + t * (highlight - shadow), FP))

\* variant: the loop also writes 255 to the alpha byte
DuotonePixelOpaque(p, shadowColor, highlightColor, minLuminance, luminanceRange) ==
    LET t == enhanceContrast(Normalize(Luminance(p), minLuminance, luminanceRange))
    IN  Px(MapChannel(shadowColor.r, highlightColor.r, t),
           MapChannel(shadowColor.g, highlightColor.g, t),
           MapChannel(shadowColor.b, highlightColor.b, t),
           255)

\* one iteration of the regular duotone loop: R, G and B are rewritten, the
\* alpha byte is not touched
DuotonePixel(p, shadowColor, highlightColor, minLuminance, luminanceRange) ==
    LET t == enhanceContrast(Normalize(Luminance(p), minLuminance, luminanceRange))
    IN  Px(MapChannel(shadowColor.r, highlightColor.r, t),
           MapChannel(shadowColor.g, highlightColor.g, t),
           MapChannel(shadowColor.b, highlightColor.b, t),
           p.a)

\* variant: each iteration takes minLuminance from the buffer it is
\* overwriting
RECURSIVE DuotoneLoopRescan(_, _, _, _, _, _)
DuotoneLoopRescan(data, i, shadowColor, highlightColor, minLuminance, luminanceRange) ==
    IF i > Len(data) THEN data
    ELSE DuotoneLoopRescan(
            [data EXCEPT ![i] = DuotonePixel(data[i], shadowColor, highlightColor,
                                             MinLuminance(data), luminanceRange)],
            i + 1, shadowColor, highlightColor, minLuminance, luminanceRange)

\* the regular duotone loop from pixel i on: the buffer read from the canvas
\* is overwritten in place, iteration i reads data[i] of the buffer the
\* earlier iterations have written to
RECURSIVE DuotoneLoop(_, _, _, _, _, _)
DuotoneLoop(data, i, shadowColor, highlightColor, minLuminance, luminanceRange) ==
    IF i > Len(data) THEN data
    ELSE DuotoneLoop(
            [data EXCEPT ![i] = DuotonePixel(data[i], shadowColor, highlightColor,
                                             minLuminance, luminanceRange)],
            i + 1, shadowColor, highlightColor, minLuminance, luminanceRange)

(***************************************************************************)
(* applyRasterizationPipeline.  brightness and contrast are in tenths (the *)
(* sliders step by 0.1), cellSize is in pixels.                            *)
(***************************************************************************)
Inf == FP * FP
NaN == 0 - 1

\* Math.pow(normalized, 1 / contrast) for normalized in [0,1]
\*   contrast > 0: the exponent 10/contrast, in lowest terms
\*   contrast = 0: the exponent is Infinity: 0 below 1, NaN at 1
\*   contrast < 0: the reciprocal of the positive power, Infinity at 0
PowContrast(normalized, contrast) ==
    IF contrast > 0
    THEN LET g == Gcd(10, contrast) IN Pow(normalized, 10 \div g, contrast \div g)
    ELSE IF contrast = 0
    THEN (IF normalized = FP THEN NaN ELSE 0)
    ELSE LET g == Gcd(10, -contrast)
             p == Pow(normalized, 10 \div g, (-contrast) \div g)
         IN  IF p = 0 THEN Inf ELSE (FP * FP) \div p

\* the part of the normalized value below 1/FP that the float's excess
\* over the luminance contributes, in units of 1e-9; the clamp to [0,1]
\* removes it below 0 and above 1
NormalizedExcess(originalValue, minLuminance, luminanceRange) ==
    LET excess == Float32Excess(originalValue)
    IN  IF originalValue - minLuminance <= 0 /\ excess < 0 THEN 0
        ELSE IF originalValue - minLuminance >= luminanceRange /\ excess > 0 THEN 0
        ELSE TruncDiv(excess * LumUnit, luminanceRange)

\* excess * brightness, in units of 1/FP
BrightnessGain(excess, brightness) ==
    IF brightness < 10000 /\ brightness > 0 - 10000
    THEN TruncDiv(excess * brightness, 10 * (1000000000 \div FP))
    ELSE TruncDiv(TruncDiv(excess * TruncDiv(brightness, 1000), 10000) * FP, 1000)

\* variant: without the final lift normalized * 1.1 + 0.05
AdjustLevelsUnlifted(originalValue, minLuminance, luminanceRange, brightness, contrast) ==
    LET n1 == Normalize(originalValue, minLuminance, luminanceRange)
        e1 == NormalizedExcess(originalValue, minLuminance, luminanceRange)
        n2 == Clamp01(FloorDiv(n1 * brightness, 10) + BrightnessGain(e1, brightness))
        n3 == enhanceContrast(n2)
        n4 == PowContrast(n3, contrast)
        shadows == (5 * FP) \div 100
        highlights == (95 * FP) \div 100
        n5 == Clamp01(FloorDiv((n4 - shadows) * FP, highlights - shadows))
        n6 == Pow(n5, 5, 4)
    IN  IF n4 = NaN THEN NaN ELSE Clamp01(n6) * 255

\* Step 2, level adjustment of one grayscale value; the result is
\* normalized * 255 in units of 1/FP, or NaN
AdjustLevels(originalValue, minLuminance, luminanceRange, brightness, contrast) ==
    LET n1 == Normalize(originalValue, minLuminance, luminanceRange)
        e1 == NormalizedExcess(originalValue, minLuminance, luminanceRange)
        n2 == Clamp01(FloorDiv(n1 * brightness, 10) + BrightnessGain(e1, brightness))
        n3 == enhanceContrast(n2)
        n4 == PowContrast(n3, contrast)
        shadows == (5 * FP) \div 100
        highlights == (95 * FP) \div 100
        n5 == Clamp01(FloorDiv((n4 - shadows) * FP, highlights - shadows))
        n6 == Pow(n5, 5, 4)
        n7 == Clamp01((n6 * 11) \div 10 + (5 * FP) \div 100)
    IN  IF n4 = NaN THEN NaN ELSE n7 * 255

\* Math.cos(Math.PI / 4) = Math.sin(Math.PI / 4) = sqrt(1/2), in units of 1/FP
Cos45 == ISqrt((FP * FP) \div 2)

\* rotatedX and rotatedY of pixel (x, y).  As doubles Math.sin(Math.PI / 4) =
\* 0.7071067811865475 is one unit in the last place below Math.cos(Math.PI / 4)
\* = 0.7071067811865476, so where the two products cancel the sum is not 0
\* but a multiple of (cos - sin) / 2, about 5.6e-17.  A rotated coordinate is
\* [main, tiny]: main in units of 1/FP pixel, tiny that multiple.
RotatedX(x, y, width, height) ==
    [main |-> ((2 * x - width) * Cos45 + (2 * y - height) * Cos45) \div 2,
     tiny |-> IF (2 * x - width) + (2 * y - height) = 0 THEN 0 - (2 * y - height)
              ELSE 0]
RotatedY(x, y, width, height) ==
    [main |-> ((2 * y - height) * Cos45 - (2 * x - width) * Cos45) \div 2,
     tiny |-> IF (2 * y - height) - (2 * x - width) = 0 THEN 2 * y - height
              ELSE 0]

\* the largest n for which cellSize - n * (cos - sin) / 2 rounds to the double
\* cellSize (products and sums rounded to nearest, for n up to 22)
AbsorbLimit(cellSize) ==
    IF cellSize <= 1 THEN 1
    ELSE IF cellSize <= 2 THEN 2
    ELSE IF cellSize <= 4 THEN 5
    ELSE IF cellSize <= 8 THEN 10
    ELSE 21

\* variant: the grid index is truncated towards zero
CellOffsetTruncated(rotated, cellSize) ==
    IF rotated.main < 0 /\ cellSize > 0
    THEN rotated.main + ((0 - rotated.main) \div (cellSize * FP)) * cellSize * FP
    ELSE rotated.main - FloorDiv(rotated.main, cellSize * FP) * cellSize * FP

\* cellOffsetX = rotatedX - gridX * cellSize with gridX =
\* Math.floor(rotatedX / cellSize), for cellSize # 0, in units of 1/FP pixel.
\* For the tiny negative rotatedX the grid index is -1 and the sum
\* rotatedX + cellSize is the double cellSize itself when the addition
\* absorbs rotatedX, and the double next below cellSize when it does not.
CellOffset(rotated, cellSize) ==
    IF rotated.main = 0 /\ rotated.tiny < 0 /\ cellSize > 0
    THEN (IF 0 - rotated.tiny <= AbsorbLimit(cellSize) THEN cellSize * FP
          ELSE cellSize * FP - 1)
    ELSE rotated.main - FloorDiv(rotated.main, cellSize * FP) * cellSize * FP

\* Step 3, first pass: thresholdMap[pixelIndex] for pixel (x, y) with adjusted
\* value `value`.  Coordinates are in units of 1/FP pixel.  With cellSize = 0
\* the division gives an infinity or NaN, gridX * cellSize is NaN and the
\* comparison with NaN is false.  distFromCenter <= rasterRadius is compared
\* on the squares, both sides doubled.
ThresholdAt(x, y, width, height, value, cellSize) ==
    IF cellSize = 0 \/ value = NaN THEN 0
    ELSE LET cellOffsetX == CellOffset(RotatedX(x, y, width, height), cellSize)
             cellOffsetY == CellOffset(RotatedY(x, y, width, height), cellSize)
             dx2 == 2 * cellOffsetX - cellSize * FP
             dy2 == 2 * cellOffsetY - cellSize * FP
             normalizedValue == value \div 255
             rasterDiameter == normalizedValue * cellSize
         IN  IF rasterDiameter >= 0
                /\ dx2 * dx2 + dy2 * dy2 <= rasterDiameter * rasterDiameter
             THEN 1 ELSE 0

\* Math.max(1, Math.floor(cellSize / 4))
KernelSize(cellSize) == Max2(1, FloorDiv(cellSize, 4))

\* variant: a sample is used when its index sampleY * width + sampleX lies in
\* the map, so a sample left or right of the image wraps into another row
JoinSamplesWrapped(x, y, width, height, cellSize) ==
    { s \in ((x - KernelSize(cellSize))..(x + KernelSize(cellSize)))
              \X ((y - KernelSize(cellSize))..(y + KernelSize(cellSize))) :
        /\ s[2] * width + s[1] >= 0
        /\ s[2] * width + s[1] < width * height }

\* the samples <<sampleX, sampleY>> of the join window of pixel (x, y) that
\* pass the bounds check and are read from thresholdMap
JoinSamples(x, y, width, height, cellSize) ==
    { s \in ((x - KernelSize(cellSize))..(x + KernelSize(cellSize)))
              \X ((y - KernelSize(cellSize))..(y + KernelSize(cellSize))) :
        /\ s[1] >= 0 /\ s[1] < width
        /\ s[2] >= 0 /\ s[2] < height }

\* variant: the joining threshold is 0.03
JoinAtLoose(x, y, width, height, thresholdMap, cellSize) ==
    LET samples == JoinSamples(x, y, width, height, cellSize)
        totalCount == Cardinality(samples)
        highlightCount ==
            Cardinality({ s \in samples : thresholdMap[s[2] * width + s[1] + 1] = 1 })
    IN  IF 100 * highlightCount > 3 * totalCount THEN 1 ELSE 0

\* variant: ratio >= 0.3
JoinAtInclusive(x, y, width, height, thresholdMap, cellSize) ==
    LET samples == JoinSamples(x, y, width, height, cellSize)
        totalCount == Cardinality(samples)
        highlightCount ==
            Cardinality({ s \in samples : thresholdMap[s[2] * width + s[1] + 1] = 1 })
    IN  IF 10 * highlightCount >= 3 * totalCount THEN 1 ELSE 0

\* Step 3, second pass: joinedMap[pixelIndex] for pixel (x, y); ratio > 0.3
JoinAt(x, y, width, height, thresholdMap, cellSize) ==
    LET samples == JoinSamples(x, y, width, height, cellSize)
        totalCount == Cardinality(samples)
        highlightCount ==
            Cardinality({ s \in samples : thresholdMap[s[2] * width + s[1] + 1] = 1 })
    IN  IF 10 * highlightCount > 3 * totalCount THEN 1 ELSE 0

\* variant: the two colours are taken the other way round
RasterPixelSwapped(joined, shadowColor, highlightColor) ==
    IF joined = 1
    THEN Px(shadowColor.r, shadowColor.g, shadowColor.b, 255)
    ELSE Px(highlightColor.r, highlightColor.g, highlightColor.b, 255)

\* Third pass: one pixel of outputData
RasterPixel(joined, shadowColor, highlightColor) ==
    IF joined = 1
    THEN Px(highlightColor.r, highlightColor.g, highlightColor.b, 255)
    ELSE Px(shadowColor.r, shadowColor.g, shadowColor.b, 255)

\* the whole pipeline on the pixels read from the canvas: the adjusted
\* grayscale, the two maps and the output put back on the canvas
applyRasterizationPipeline(originalImageData, width, height, shadowColor, highlightColor, minLuminance, luminanceRange, brightness, contrast, cellSize) ==
    LET n == width * height
        grayscaleData == [i \in 1..n |-> Luminance(originalImageData[i])]
        adjustedGrayscale ==
            [i \in 1..n |-> AdjustLevels(grayscaleData[i], minLuminance,
                                         luminanceRange, brightness, contrast)]
        thresholdMap ==
            [i \in 1..n |-> ThresholdAt((i - 1) % width, (i - 1) \div width, width,
                                        height, adjustedGrayscale[i], cellSize)]
        joinedMap ==
            [i \in 1..n |-> JoinAt((i - 1) % width, (i - 1) \div width, width,
                                   height, thresholdMap, cellSize)]
        outputData ==
            [i \in 1..n |-> RasterPixel(joinedMap[i], shadowColor, highlightColor)]
    IN  [adjustedGrayscale |-> adjustedGrayscale, thresholdMap |-> thresholdMap,
         joinedMap |-> joinedMap, outputData |-> outputData]

(***************************************************************************)
(* processImageOnCanvas(img, canvas, isReversed, useClassicColors,         *)
(* useHalftone, rasterSettings) on a canvas holding c.  rasterSettings is  *)
(* <<>> when the argument is undefined and <<settings>> otherwise.  The    *)
(* result records whether the call returned or threw, the canvas it        *)
(* leaves, the dimensions it returns and the values it computed on the     *)
(* way (those of the raster pipeline are empty when it did not run).  A 2D context is always available.  colors holds the module's     *)
(* colour objects at the time of the call.                                 *)
(***************************************************************************)
NoDimensions == [width |-> 0, height |-> 0]

\* variant: || in place of ??, a supplied 0 is replaced by the default
RasterParametersOr(rasterSettings) ==
    IF Len(rasterSettings) = 0
    THEN [brightness |-> 13, contrast |-> 10, cellSize |-> 8]
    ELSE [brightness |-> IF rasterSettings[1].brightness = 0 THEN 13
                         ELSE rasterSettings[1].brightness,
          contrast   |-> IF rasterSettings[1].contrast = 0 THEN 10
                         ELSE rasterSettings[1].contrast,
          cellSize   |-> IF rasterSettings[1].cellSize = 0 THEN 8
                         ELSE rasterSettings[1].cellSize]

\* rasterSettings?.brightness ?? 1.3, rasterSettings?.contrast ?? 1.0 and
\* rasterSettings?.cellSize ?? 8 (a settings object has all three members)
RasterParameters(rasterSettings) ==
    IF Len(rasterSettings) = 0
    THEN [brightness |-> 13, contrast |-> 10, cellSize |-> 8]
    ELSE [brightness |-> rasterSettings[1].brightness,
          contrast   |-> rasterSettings[1].contrast,
          cellSize   |-> rasterSettings[1].cellSize]

processImageOnCanvas(colors, img, c, isReversed, useClassicColors, useHalftone, rasterSettings) ==
    LET dims   == calculateDimensions(img.naturalWidth, img.naturalHeight)
        width  == dims.width
        height == dims.height
        drawn  == DrawImage(ResizeCanvas(c, width, height), img, width, height)
        data   == drawn.data
        minLuminance   == MinLuminance(data)
        maxLuminance   == MaxLuminance(data)
        luminanceRange == LuminanceRange(minLuminance, maxLuminance)
        shadowColor    == ShadowColor(colors, isReversed, useClassicColors)
        highlightColor == HighlightColor(colors, isReversed, useClassicColors)
        parameters == RasterParameters(rasterSettings)
        blank == [outcome |-> "threw", canvas |-> drawn, dimensions |-> NoDimensions,
                  input |-> data, minLuminance |-> minLuminance,
                  maxLuminance |-> maxLuminance, luminanceRange |-> luminanceRange,
                  shadowColor |-> shadowColor, highlightColor |-> highlightColor,
                  rasterParameters |-> <<>>, adjustedGrayscale |-> <<>>,
                  thresholdMap |-> <<>>, joinedMap |-> <<>>]
    IN  IF GetImageDataThrows(width, height)
        THEN blank
        ELSE IF useHalftone
        THEN Only({ [blank EXCEPT
                        !.outcome = "returned",
                        !.dimensions = dims,
                        !.canvas = [drawn EXCEPT !.data = raster.outputData],
                        !.rasterParameters = <<parameters>>,
                        !.adjustedGrayscale = raster.adjustedGrayscale,
                        !.thresholdMap = raster.thresholdMap,
                        !.joinedMap = raster.joinedMap] :
                    raster \in { applyRasterizationPipeline(data, width, height,
                                     shadowColor, highlightColor, minLuminance,
                                     luminanceRange, parameters.brightness,
                                     parameters.contrast, parameters.cellSize) } })
        ELSE [blank EXCEPT
                !.outcome = "returned",
                !.dimensions = dims,
                !.canvas = [drawn EXCEPT !.data =
                    DuotoneLoop(data, 1, shadowColor, highlightColor,
                                minLuminance, luminanceRange)]]

(***************************************************************************)
(* Inputs.                                                                 *)
(***************************************************************************)
PixelChoices == { Px(0, 0, 0, 255), Px(255, 255, 255, 255), Px(200, 100, 50, 128),
                  Px(230, 180, 90, 255), TransparentBlack }
GrayLevels == {0, 128, 255}

\* the image of w x h pixels whose pixels alternate between a and b
TwoTone(w, h, a, b) == MkImage(w, h, [i \in 1..(w * h) |-> IF i % 2 = 1 THEN a ELSE b])
\* the image of w x h pixels whose pixels cycle through a, b and c
ThreeTone(w, h, a, b, c) ==
    MkImage(w, h, [i \in 1..(w * h) |->
                      IF i % 3 = 1 THEN a ELSE IF i % 3 = 2 THEN b ELSE c])
\* the uniform opaque gray image
Flat(w, h, level) == MkImage(w, h, [i \in 1..(w * h) |-> Px(level, level, level, 255)])

Images ==
    { ThreeTone(w, h, a, b, c) : w \in 0..MaxW, h \in 0..MaxH,
                                 a \in PixelChoices, b \in PixelChoices, c \in PixelChoices }
TwoToneImages ==
    { TwoTone(w, h, a, b) : w \in 0..MaxW, h \in 0..MaxH,
                            a \in PixelChoices, b \in PixelChoices }
FlatImages ==
    { Flat(w, h, level) : w \in 1..MaxFlatW, h \in 1..MaxFlatH, level \in GrayLevels }

\* black-and-white images of 3 x 3 pixels and more, on which a join window
\* of the raster pipeline covers part of the image only
GridImages ==
    { TwoTone(w, h, a, b) : w \in 3..MaxGridW, h \in 3..MaxGridH,
                            a \in { Px(0, 0, 0, 255), Px(255, 255, 255, 255) },
                            b \in { Px(0, 0, 0, 255), Px(255, 255, 255, 255) } }

Settings(brightness, contrast, cellSize) ==
    [brightness |-> brightness, contrast |-> contrast, cellSize |-> cellSize]
\* the defaults with one of the three replaced, also by degenerate values
RasterSettingsChoices ==
    {<<>>} \cup { <<Settings(b, 10, 8)>> : b \in {-5, 0, 20} }
           \cup { <<Settings(13, c, 8)>> : c \in {-10, 0, 20} }
           \cup { <<Settings(13, 10, s)>> : s \in {-8, 0, 1, 2, 4} }

Call(img, isReversed, useClassicColors, useHalftone, rasterSettings) ==
    [img |-> img, isReversed |-> isReversed, useClassicColors |-> useClassicColors,
     useHalftone |-> useHalftone, rasterSettings |-> rasterSettings]

Calls ==
    { Call(img, rev, classic, FALSE, rs) :
        img \in Images, rev \in BOOLEAN, classic \in BOOLEAN,
        rs \in {<<>>, <<Settings(20, 20, 4)>>} }
    \cup { Call(img, rev, classic, TRUE, <<>>) :
        img \in Images, rev \in BOOLEAN, classic \in BOOLEAN }
    \cup { Call(img, FALSE, FALSE, TRUE, rs) :
        img \in TwoToneImages, rs \in RasterSettingsChoices }

FlatCalls ==
    { Call(img, rev, FALSE, halftone, <<>>) :
        img \in FlatImages, rev \in BOOLEAN, halftone \in BOOLEAN }

\* uniform images of one colour, rendered in raster mode with a brightness
\* of 100000
Tint(w, h, p) == MkImage(w, h, [i \in 1..(w * h) |-> p])
TintCalls ==
    { Call(Tint(1, h, p), FALSE, FALSE, TRUE, <<Settings(1000000, 10, 8)>>) :
        h \in 10..MaxFlatH, p \in { Px(0, 0, 0, 255), Px(230, 180, 90, 255) } }

GridCalls ==
    { Call(img, rev, FALSE, TRUE, rs) :
        img \in GridImages, rev \in BOOLEAN,
        rs \in { <<>>, <<Settings(13, 10, 4)>>, <<Settings(13, 10, 2)>> } }

\* the raster calls whose pipeline is run step by step
StagePixels == { Px(0, 0, 0, 255), Px(255, 255, 255, 255), Px(200, 100, 50, 128) }
StageCalls ==
    { Call(TwoTone(w, h, a, b), FALSE, FALSE, TRUE, rs) :
        w \in 1..MaxStageW, h \in 1..MaxStageH, a \in StagePixels, b \in StagePixels,
        rs \in { <<>>, <<Settings(13, 10, 2)>> } }

\* the calls of a sequence of calls on one canvas: one-row images, the
\* continuous mode under the four colour choices and the raster mode under the
\* default and under degenerate settings
SeqPixels == { Px(255, 255, 255, 255), Px(200, 100, 50, 128), TransparentBlack }
SeqImages == { TwoTone(w, 1, a, b) : w \in 0..MaxSeqW, a \in SeqPixels, b \in SeqPixels }
SeqCalls ==
    { Call(img, f[1], f[2], FALSE, <<>>) :
        img \in SeqImages, f \in BOOLEAN \X BOOLEAN }
    \cup { Call(img, FALSE, FALSE, TRUE, rs) :
        img \in SeqImages,
        rs \in { <<>>, <<Settings(0, 10, 8)>>, <<Settings(-5, 10, 8)>>,
                 <<Settings(13, 0, 8)>>, <<Settings(13, 10, 0)>> } }

DimSamples == { 1000, 1500, 2000, 2999, 3000, 3001, 4000, 4500, 5999, 6000, 7001, 30000 }
DimInputs == (1..MaxSmallDim) \cup DimSamples

(***************************************************************************)
(* State.                                                                  *)
(***************************************************************************)
EmptyCanvas == [width |-> 0, height |-> 0, data |-> <<>>]
NoImage == [naturalWidth |-> 0, naturalHeight |-> 0, data |-> <<>>]
NoColor == [r |-> 0, g |-> 0, b |-> 0]

\* a call that has not been processed: outcome is "none" when nothing was
\* called and "pending" when the image of the call has not loaded yet
Unprocessed(call, outcome) ==
    [call |-> call, outcome |-> outcome, dimensions |-> NoDimensions, input |-> <<>>,
     minLuminance |-> 0, maxLuminance |-> 0, luminanceRange |-> 0,
     shadowColor |-> NoColor, highlightColor |-> NoColor,
     rasterParameters |-> <<>>, adjustedGrayscale |-> <<>>,
     thresholdMap |-> <<>>, joinedMap |-> <<>>]

NoCall == Call(NoImage, FALSE, FALSE, FALSE, <<>>)
NoDimCall == [originalWidth |-> 0, originalHeight |-> 0, done |-> FALSE,
              width |-> 0, height |-> 0]

Visible(c) == \E i \in 1..Len(c.data) : c.data[i].a # 0

NoCurveCall == [value |-> 0, done |-> FALSE, result |-> 0]

\* the arrays of a pipeline call, each with the stage that writes it
ArrayNames == { "originalImageData", "grayscaleData", "adjustedGrayscale",
                "thresholdMap", "joinedMap", "outputData" }
\* no pipeline call has begun
NoPipe ==
    [pc |-> "idle", i |-> 0, again |-> FALSE, args |-> <<>>,
     grayscaleData |-> <<>>, adjustedGrayscale |-> <<>>, thresholdMap |-> <<>>,
     joinedMap |-> <<>>, outputData |-> <<>>,
     written |-> [a \in ArrayNames |-> {}], reads |-> {}]

\* no processDuotoneImage call has been made
NoJobs == <<>>
\* the Index page as first rendered: the initial values of its useState
\* hooks; no object URL has been handed to it and none has been revoked
NewPage ==
    [originalFile |-> <<>>, processedImage |-> <<>>, isProcessing |-> FALSE,
     error |-> <<>>, isReversed |-> FALSE, useClassicColors |-> FALSE,
     useHalftone |-> FALSE, mounted |-> TRUE, issued |-> 0, revoked |-> <<>>]
\* no applyHalftoneEffect call has begun
NoScreen ==
    [pc |-> "idle", call |-> NoCall, gridX |-> 0, gridY |-> 0, args |-> <<>>,
     surface |-> <<>>, draws |-> <<>>]

Init ==
    /\ canvas = EmptyCanvas
    /\ last = Unprocessed(NoCall, "none")
    /\ dirty = FALSE
    /\ dimCall = NoDimCall
    /\ palette = ColorTables
    /\ pipe = NoPipe
    /\ curveCall = NoCurveCall
    /\ jobs = NoJobs
    /\ page = NewPage
    /\ screen = NoScreen

\* img.onload of processDuotoneImage: processImageOnCanvas runs on the canvas
Process(call) ==
    \E res \in { processImageOnCanvas(palette, call.img, canvas, call.isReversed,
                     call.useClassicColors, call.useHalftone, call.rasterSettings) } :
    LET dims == calculateDimensions(call.img.naturalWidth, call.img.naturalHeight)
    IN  /\ canvas' = res.canvas
        /\ last' = [call |-> call, outcome |-> res.outcome,
                    dimensions |-> res.dimensions, input |-> res.input,
                    minLuminance |-> res.minLuminance,
                    maxLuminance |-> res.maxLuminance,
                    luminanceRange |-> res.luminanceRange,
                    shadowColor |-> res.shadowColor,
                    highlightColor |-> res.highlightColor,
                    rasterParameters |-> res.rasterParameters,
                    adjustedGrayscale |-> res.adjustedGrayscale,
                    thresholdMap |-> res.thresholdMap, joinedMap |-> res.joinedMap]
        /\ dirty' = Visible(canvas)
        /\ dimCall' = [originalWidth |-> call.img.naturalWidth,
                       originalHeight |-> call.img.naturalHeight, done |-> TRUE,
                       width |-> dims.width, height |-> dims.height]
        /\ UNCHANGED <<palette, pipe, curveCall, page, screen>>

ProcessImage == \E call \in SeqCalls : Process(call) /\ UNCHANGED jobs

Next == ProcessImage

Spec == Init /\ [][Next]_vars

(***************************************************************************)
(* One call on a fresh canvas: the call is drawn at the start and          *)
(* processed when its image has loaded.                                    *)
(***************************************************************************)
InitCall ==
    /\ canvas = EmptyCanvas
    /\ last \in { Unprocessed(call, "pending") : call \in Calls \cup FlatCalls \cup GridCalls \cup TintCalls }
    /\ dirty = FALSE
    /\ dimCall = NoDimCall
    /\ palette = ColorTables
    /\ pipe = NoPipe
    /\ curveCall = NoCurveCall
    /\ jobs = NoJobs
    /\ page = NewPage
    /\ screen = NoScreen

ProcessPending == last.outcome = "pending" /\ Process(last.call) /\ UNCHANGED jobs

NextCall == ProcessPending

SpecCall == InitCall /\ [][NextCall]_vars

(***************************************************************************)
(* calculateDimensions alone, on a pair of dimensions drawn at the start.  *)
(***************************************************************************)
InitDims ==
    /\ canvas = EmptyCanvas
    /\ last = Unprocessed(NoCall, "none")
    /\ dirty = FALSE
    /\ dimCall \in { [NoDimCall EXCEPT !.originalWidth = w, !.originalHeight = h] :
                        w \in DimInputs, h \in DimInputs }
    /\ palette = ColorTables
    /\ pipe = NoPipe
    /\ curveCall = NoCurveCall
    /\ jobs = NoJobs
    /\ page = NewPage
    /\ screen = NoScreen

CalculateDimensions ==
    /\ ~dimCall.done
    /\ LET dims == calculateDimensions(dimCall.originalWidth, dimCall.originalHeight)
       IN  dimCall' = [dimCall EXCEPT !.done = TRUE, !.width = dims.width,
                                      !.height = dims.height]
    /\ UNCHANGED <<canvas, last, dirty, palette, pipe, curveCall, jobs, page, screen>>

NextDims == CalculateDimensions

SpecDims == InitDims /\ [][NextDims]_vars

(***************************************************************************)
(* enhanceContrast alone, on a value of [0,1] drawn at the start.          *)
(***************************************************************************)
InitCurve ==
    /\ canvas = EmptyCanvas
    /\ last = Unprocessed(NoCall, "none")
    /\ dirty = FALSE
    /\ dimCall = NoDimCall
    /\ palette = ColorTables
    /\ pipe = NoPipe
    /\ curveCall \in { [NoCurveCall EXCEPT !.value = v] : v \in 0..FP }
    /\ jobs = NoJobs
    /\ page = NewPage
    /\ screen = NoScreen

EnhanceContrast ==
    /\ ~curveCall.done
    /\ curveCall' = [curveCall EXCEPT !.done = TRUE,
                                      !.result = enhanceContrast(curveCall.value)]
    /\ UNCHANGED <<canvas, last, dirty, dimCall, palette, pipe, jobs, page, screen>>

NextCurve == EnhanceContrast

SpecCurve == InitCurve /\ [][NextCurve]_vars

(***************************************************************************)
(* applyRasterizationPipeline step by step: one action per loop iteration  *)
(* and one per allocation of the next array.  pipe.pc is the loop the call *)
(* is in, pipe.i the pixel (pixelIndex + 1) its next iteration handles,    *)
(* pipe.written the elements of each array assigned so far and pipe.reads  *)
(* the array elements the last step read.  The canvas is not part of the   *)
(* frame: fillRect and putImageData act on it, the loops do not.           *)
(***************************************************************************)
\* the arguments processImageOnCanvas passes to the pipeline for a raster call
PipelineArgs(call) ==
    LET dims == calculateDimensions(call.img.naturalWidth, call.img.naturalHeight)
        data == DrawImage(ResizeCanvas(canvas, dims.width, dims.height), call.img,
                          dims.width, dims.height).data
        minLuminance == MinLuminance(data)
        parameters == RasterParameters(call.rasterSettings)
    IN  [originalImageData |-> data, width |-> dims.width, height |-> dims.height,
         shadowColor |-> ShadowColor(palette, call.isReversed, call.useClassicColors),
         highlightColor |-> HighlightColor(palette, call.isReversed,
                                           call.useClassicColors),
         minLuminance |-> minLuminance,
         luminanceRange |-> LuminanceRange(minLuminance, MaxLuminance(data)),
         brightness |-> parameters.brightness, contrast |-> parameters.contrast,
         cellSize |-> parameters.cellSize]

\* width * height of the frame p
Size(p) == p.args.width * p.args.height
\* the coordinates of the pixel the next iteration handles
PixelX(p) == (p.i - 1) % p.args.width
PixelY(p) == (p.i - 1) \div p.args.width

\* new Float32Array(n), new Uint8Array(n), createImageData: n elements `zero`
Allocate(p, stage, array, zero) ==
    [p EXCEPT !.pc = stage, !.i = 1, ![array] = [k \in 1..Size(p) |-> zero],
              !.reads = {}]

\* one loop iteration: array[pixelIndex] = value, having read `reads`
Iterate(p, array, value, reads) ==
    [p EXCEPT ![array] = [@ EXCEPT ![p.i] = value],
              !.written = [@ EXCEPT ![array] = @ \cup {p.i}],
              !.reads = reads, !.i = p.i + 1]

\* variant: the join pass works in place, on the map it is writing
JoinReadsInPlace(p) ==
    { <<"joinedMap", s[2] * p.args.width + s[1] + 1>> :
        s \in JoinSamples(PixelX(p), PixelY(p), p.args.width, p.args.height,
                          p.args.cellSize) }

\* the elements the join iteration reads: thresholdMap[sampleIndex] for the
\* samples that pass the bounds check
JoinReads(p) ==
    { <<"thresholdMap", s[2] * p.args.width + s[1] + 1>> :
        s \in JoinSamples(PixelX(p), PixelY(p), p.args.width, p.args.height,
                          p.args.cellSize) }

InitStages ==
    /\ canvas = EmptyCanvas
    /\ last = Unprocessed(NoCall, "none")
    /\ dirty = FALSE
    /\ dimCall = NoDimCall
    /\ palette = ColorTables
    /\ pipe = NoPipe
    /\ curveCall = NoCurveCall
    /\ jobs = NoJobs
    /\ page = NewPage
    /\ screen = NoScreen

\* processImageOnCanvas calls the pipeline: a new frame, grayscaleData
\* allocated, the other arrays not yet
CallPipeline ==
    /\ pipe.pc \in {"idle", "done"}
    /\ \E call \in StageCalls : \E args \in { PipelineArgs(call) } :
          pipe' = Allocate(
                    [NoPipe EXCEPT !.args = args, !.again = (pipe.pc = "done"),
                        !.written = [a \in ArrayNames |->
                            IF a = "originalImageData"
                            THEN 1..(args.width * args.height) ELSE {}]],
                    "grayscale", "grayscaleData", 0)
    /\ UNCHANGED <<canvas, last, dirty, dimCall, palette, curveCall, jobs, page, screen>>

GrayscaleStep ==
    /\ pipe.pc = "grayscale" /\ pipe.i <= Size(pipe)
    /\ pipe' = Iterate(pipe, "grayscaleData",
                       Luminance(pipe.args.originalImageData[pipe.i]),
                       {<<"originalImageData", pipe.i>>})
    /\ UNCHANGED <<canvas, last, dirty, dimCall, palette, curveCall, jobs, page, screen>>

EnterLevels ==
    /\ pipe.pc = "grayscale" /\ pipe.i > Size(pipe)
    /\ pipe' = Allocate(pipe, "levels", "adjustedGrayscale", 0)
    /\ UNCHANGED <<canvas, last, dirty, dimCall, palette, curveCall, jobs, page, screen>>

LevelStep ==
    /\ pipe.pc = "levels" /\ pipe.i <= Size(pipe)
    /\ pipe' = Iterate(pipe, "adjustedGrayscale",
                       AdjustLevels(pipe.grayscaleData[pipe.i], pipe.args.minLuminance,
                                    pipe.args.luminanceRange, pipe.args.brightness,
                                    pipe.args.contrast),
                       {<<"grayscaleData", pipe.i>>})
    /\ UNCHANGED <<canvas, last, dirty, dimCall, palette, curveCall, jobs, page, screen>>

EnterThreshold ==
    /\ pipe.pc = "levels" /\ pipe.i > Size(pipe)
    /\ pipe' = Allocate(pipe, "threshold", "thresholdMap", 0)
    /\ UNCHANGED <<canvas, last, dirty, dimCall, palette, curveCall, jobs, page, screen>>

ThresholdStep ==
    /\ pipe.pc = "threshold" /\ pipe.i <= Size(pipe)
    /\ pipe' = Iterate(pipe, "thresholdMap",
                       ThresholdAt(PixelX(pipe), PixelY(pipe), pipe.args.width,
                                   pipe.args.height, pipe.adjustedGrayscale[pipe.i],
                                   pipe.args.cellSize),
                       {<<"adjustedGrayscale", pipe.i>>})
    /\ UNCHANGED <<canvas, last, dirty, dimCall, palette, curveCall, jobs, page, screen>>

EnterJoin ==
    /\ pipe.pc = "threshold" /\ pipe.i > Size(pipe)
    /\ pipe' = Allocate(pipe, "join", "joinedMap", 0)
    /\ UNCHANGED <<canvas, last, dirty, dimCall, palette, curveCall, jobs, page, screen>>

JoinStep ==
    /\ pipe.pc = "join" /\ pipe.i <= Size(pipe)
    /\ pipe' = Iterate(pipe, "joinedMap",
                       JoinAt(PixelX(pipe), PixelY(pipe), pipe.args.width,
                              pipe.args.height, pipe.thresholdMap, pipe.args.cellSize),
                       JoinReads(pipe))
    /\ UNCHANGED <<canvas, last, dirty, dimCall, palette, curveCall, jobs, page, screen>>

EnterRender ==
    /\ pipe.pc = "join" /\ pipe.i > Size(pipe)
    /\ pipe' = Allocate(pipe, "render", "outputData", TransparentBlack)
    /\ UNCHANGED <<canvas, last, dirty, dimCall, palette, curveCall, jobs, page, screen>>

RenderStep ==
    /\ pipe.pc = "render" /\ pipe.i <= Size(pipe)
    /\ pipe' = Iterate(pipe, "outputData",
                       RasterPixel(pipe.joinedMap[pipe.i], pipe.args.shadowColor,
                                   pipe.args.highlightColor),
                       {<<"joinedMap", pipe.i>>})
    /\ UNCHANGED <<canvas, last, dirty, dimCall, palette, curveCall, jobs, page, screen>>

\* ctx.putImageData(outputImageData, 0, 0) and the return
Finish ==
    /\ pipe.pc = "render" /\ pipe.i > Size(pipe)
    /\ pipe' = [pipe EXCEPT !.pc = "done",
                            !.reads = { <<"outputData", k>> : k \in 1..Size(pipe) }]
    /\ UNCHANGED <<canvas, last, dirty, dimCall, palette, curveCall, jobs, page, screen>>

NextStages ==
    \/ CallPipeline
    \/ GrayscaleStep \/ EnterLevels
    \/ LevelStep \/ EnterThreshold
    \/ ThresholdStep \/ EnterJoin
    \/ JoinStep \/ EnterRender
    \/ RenderStep \/ Finish

SpecStages == InitStages /\ [][NextStages]_vars

(***************************************************************************)
(* processDuotoneImage.  A job is one call: the file's image, whether the  *)
(* browser can decode it, the events of the call in the order they occur   *)
(* (the executor's createObjectURL and img.src, then the load or error     *)
(* event and what its handler calls) and the promise returned.  The calls  *)
(* share the canvas.  canvas.getContext may return null (the canvas has a  *)
(* context of another kind); processImageOnCanvas then throws before it    *)
(* touches the canvas.                                                     *)
(***************************************************************************)
JobCalls ==
    { Call(img, FALSE, FALSE, halftone, <<>>) :
        img \in { MkImage(0, 0, <<>>), Flat(1, 1, 255),
                  TwoTone(2, 1, Px(0, 0, 0, 255), Px(255, 255, 255, 255)) },
        halftone \in BOOLEAN }

\* new Promise(executor): the executor creates the object URL and assigns
\* img.src
NewJob(call, decodable) ==
    [call |-> call, decodable |-> decodable,
     events |-> <<"createObjectURL", "src">>,
     promise |-> "pending", value |-> <<>>, outcome |-> "none", result |-> <<>>]

\* img.onload, when processImageOnCanvas had the given outcome ("returned",
\* "threw" from getImageData, or "nocontext") and returned the dimensions
LoadedJob(job, outcome, dimensions) ==
    [job EXCEPT
        !.events = @ \o <<"load", "revokeObjectURL", "processImageOnCanvas",
                          IF outcome = "returned" THEN "resolve" ELSE "reject">>,
        !.outcome = outcome,
        !.result = IF outcome = "returned" THEN <<dimensions>> ELSE <<>>,
        !.promise = IF outcome = "returned" THEN "resolved" ELSE "rejected",
        !.value = IF outcome = "returned" THEN <<dimensions>>
                  ELSE IF outcome = "threw" THEN <<"IndexSizeError">>
                  ELSE <<"Could not get canvas context">>]

\* variant: img.onerror does not revoke the URL
FailedJobUnrevoked(job) ==
    [job EXCEPT !.events = @ \o <<"error", "reject">>,
                !.promise = "rejected",
                !.value = <<"Failed to load image">>]

\* img.onerror
FailedJob(job) ==
    [job EXCEPT !.events = @ \o <<"error", "revokeObjectURL", "reject">>,
                !.promise = "rejected",
                !.value = <<"Failed to load image">>]

\* the load or error event of the job's image has not been dispatched
Loading(job) == Len(job.events) = 2

InitLoad ==
    /\ canvas = EmptyCanvas
    /\ last = Unprocessed(NoCall, "none")
    /\ dirty = FALSE
    /\ dimCall = NoDimCall
    /\ palette = ColorTables
    /\ pipe = NoPipe
    /\ curveCall = NoCurveCall
    /\ jobs = NoJobs
    /\ page = NewPage
    /\ screen = NoScreen

\* a call of processDuotoneImage up to the return of the promise
ProcessDuotoneImage ==
    /\ Len(jobs) < MaxJobs
    /\ \E call \in JobCalls, decodable \in BOOLEAN :
          jobs' = Append(jobs, NewJob(call, decodable))
    /\ UNCHANGED <<canvas, last, dirty, dimCall, palette, pipe, curveCall, page, screen>>

\* the load event of job j's image, with a 2D context
OnLoad ==
    \E j \in 1..Len(jobs) :
        /\ Loading(jobs[j]) /\ jobs[j].decodable
        /\ Process(jobs[j].call)
        /\ jobs' = [jobs EXCEPT ![j] = LoadedJob(@, last'.outcome, last'.dimensions)]

\* the load event of job j's image, when getContext returns null
OnLoadNoContext ==
    \E j \in 1..Len(jobs) :
        /\ Loading(jobs[j]) /\ jobs[j].decodable
        /\ jobs' = [jobs EXCEPT ![j] = LoadedJob(@, "nocontext", NoDimensions)]
        /\ UNCHANGED <<canvas, last, dirty, dimCall, palette, pipe, curveCall, page, screen>>

\* the error event of job j's image
OnError ==
    \E j \in 1..Len(jobs) :
        /\ Loading(jobs[j]) /\ ~jobs[j].decodable
        /\ jobs' = [jobs EXCEPT ![j] = FailedJob(@)]
        /\ UNCHANGED <<canvas, last, dirty, dimCall, palette, pipe, curveCall, page, screen>>

NextLoad == ProcessDuotoneImage \/ OnLoad \/ OnLoadNoContext \/ OnError

SpecLoad == InitLoad /\ [][NextLoad]_vars

(***************************************************************************)
(* The Index page.  page holds the values of the useState hooks, whether   *)
(* the component is mounted, the number of object URLs handed to           *)
(* handleProcessingComplete so far (URL n is the n-th) and the URLs        *)
(* revoked, in the order of the revocations.  A handler is one action: its *)
(* state setters and the updater functions they queue have all run when    *)
(* the action ends.  originalFile, processedImage and error are <<>> for   *)
(* null.                                                                   *)
(***************************************************************************)
FileNames == { "a.png", "b.png" }
ResultDimensions == { [width |-> 1, height |-> 1], [width |-> 3000, height |-> 2000] }

\* the updater of handleFileSelect, handleReset and the unmount cleanup:
\* the previous URL is revoked and processedImage becomes null
ClearProcessedImage(p) ==
    [p EXCEPT !.processedImage = <<>>,
              !.revoked = IF p.processedImage # <<>>
                          THEN Append(p.revoked, p.processedImage[1].url)
                          ELSE p.revoked]

InitPage ==
    /\ canvas = EmptyCanvas
    /\ last = Unprocessed(NoCall, "none")
    /\ dirty = FALSE
    /\ dimCall = NoDimCall
    /\ palette = ColorTables
    /\ pipe = NoPipe
    /\ curveCall = NoCurveCall
    /\ jobs = NoJobs
    /\ page = NewPage
    /\ screen = NoScreen

handleFileSelect ==
    /\ page.mounted
    /\ \E file \in FileNames :
          page' = [ClearProcessedImage(page) EXCEPT !.error = <<>>,
                                                    !.originalFile = <<file>>,
                                                    !.isProcessing = TRUE]
    /\ UNCHANGED <<canvas, last, dirty, dimCall, palette, pipe, curveCall, jobs, screen>>

handleReverseToggle ==
    /\ page.mounted
    /\ \E checked \in BOOLEAN : page' = [page EXCEPT !.isReversed = checked]
    /\ UNCHANGED <<canvas, last, dirty, dimCall, palette, pipe, curveCall, jobs, screen>>

handleColorToggle ==
    /\ page.mounted
    /\ \E useClassic \in BOOLEAN : page' = [page EXCEPT !.useClassicColors = useClassic]
    /\ UNCHANGED <<canvas, last, dirty, dimCall, palette, pipe, curveCall, jobs, screen>>

handleHalftoneToggle ==
    /\ page.mounted
    /\ \E checked \in BOOLEAN : page' = [page EXCEPT !.useHalftone = checked]
    /\ UNCHANGED <<canvas, last, dirty, dimCall, palette, pipe, curveCall, jobs, screen>>

\* handleProcessingComplete(url, dimensions) with the next URL
handleProcessingComplete ==
    /\ page.mounted /\ page.issued < MaxUrls
    /\ \E dimensions \in ResultDimensions :
          page' = [ClearProcessedImage(page) EXCEPT
                      !.issued = page.issued + 1,
                      !.processedImage =
                          IF page.originalFile # <<>>
                          THEN <<[url |-> page.issued + 1,
                                  filename |-> page.originalFile[1],
                                  dimensions |-> dimensions]>>
                          ELSE <<>>,
                      !.isProcessing = FALSE]
    /\ UNCHANGED <<canvas, last, dirty, dimCall, palette, pipe, curveCall, jobs, screen>>

handleProcessingError ==
    /\ page.mounted
    /\ \E errorMessage \in { "Failed to load image", "Could not get canvas context" } :
          page' = [page EXCEPT !.error = <<errorMessage>>, !.isProcessing = FALSE]
    /\ UNCHANGED <<canvas, last, dirty, dimCall, palette, pipe, curveCall, jobs, screen>>

handleReset ==
    /\ page.mounted
    /\ page' = [ClearProcessedImage(page) EXCEPT
                   !.originalFile = <<>>, !.error = <<>>, !.isProcessing = FALSE,
                   !.isReversed = FALSE, !.useClassicColors = FALSE,
                   !.useHalftone = FALSE]
    /\ UNCHANGED <<canvas, last, dirty, dimCall, palette, pipe, curveCall, jobs, screen>>

\* the cleanup of the mount effect.  The component is being removed: React
\* may run the queued updater or drop it.
Unmount ==
    /\ page.mounted
    /\ \E runs \in BOOLEAN :
          page' = [(IF runs THEN ClearProcessedImage(page) ELSE page) EXCEPT
                      !.mounted = FALSE]
    /\ UNCHANGED <<canvas, last, dirty, dimCall, palette, pipe, curveCall, jobs, screen>>

NextPage ==
    \/ handleFileSelect
    \/ handleReverseToggle
    \/ handleColorToggle
    \/ handleHalftoneToggle
    \/ handleProcessingComplete
    \/ handleProcessingError
    \/ handleReset
    \/ Unmount

SpecPage == InitPage /\ [][NextPage]_vars

(***************************************************************************)
(* applyHalftoneEffect, the solid-block screen print of the halftone       *)
(* branch of src/lib/duotone-processor.ts, cell by cell.  screen.surface   *)
(* is the canvas the context draws on, one entry per pixel: "shadow" after *)
(* the fillRect of the halftone branch, "highlight" where a fillRect or    *)
(* the inside of a filled arc has painted, "blend" where the edge of a     *)
(* filled arc covers the pixel in part (the browser mixes the two colours).*)
(* screen.draws lists what each iteration of the inner loop has drawn.     *)
(* Radii are in units of 1/FP pixel.                                       *)
(***************************************************************************)
\* const cellSize = 12
HalftoneCellSize == 12
\* maxDotSize = cellSize * 0.85, in units of 1/100 pixel
MaxDotSize == HalftoneCellSize * 85
\* normalizedLuminance <= shadowThreshold (0.2) and >= highlightThreshold (0.8)
IsSolidShadow(normalizedLuminance) == 10 * normalizedLuminance <= 2 * FP
IsSolidHighlight(normalizedLuminance) == 10 * normalizedLuminance >= 8 * FP
\* radius = ((normalizedLuminance - 0.2) / (0.8 - 0.2)) * maxDotSize / 2, in
\* units of 1/FP pixel, rounded down
DotRadius(normalizedLuminance) ==
    ((10 * normalizedLuminance - 2 * FP) * MaxDotSize) \div (6 * 100 * 2)
\* variant: the disc is drawn whatever its radius
DotIsDrawnAlways(normalizedLuminance) == normalizedLuminance >= 0
\* if (radius > 1), on the exact radius
DotIsDrawn(normalizedLuminance) ==
    (10 * normalizedLuminance - 2 * FP) * MaxDotSize > 6 * 100 * 2 * FP

\* Math.ceil(length / cellSize)
CellsAcross(length) == (length + HalftoneCellSize - 1) \div HalftoneCellSize

\* what the inner sampling loop adds to totalLuminance in row y from column x
RECURSIVE RowLuminance(_, _, _, _, _)
RowLuminance(imageData, width, x, endX, y) ==
    IF x >= endX THEN 0
    ELSE Luminance(imageData[y * width + x + 1])
         + RowLuminance(imageData, width, x + 1, endX, y)

\* totalLuminance of the cell's sampling loops from row y on
RECURSIVE TotalLuminance(_, _, _, _, _, _)
TotalLuminance(imageData, width, startX, endX, y, endY) ==
    IF y >= endY THEN 0
    ELSE RowLuminance(imageData, width, startX, endX, y)
         + TotalLuminance(imageData, width, startX, endX, y + 1, endY)

\* the part of pixel (x, y) that the disc of the given centre and radius covers
DiscCoverage(x, y, centerX, centerY, radius) ==
    LET farX  == Max2(centerX - x, x + 1 - centerX)
        farY  == Max2(centerY - y, y + 1 - centerY)
        nearX == IF x <= centerX /\ centerX <= x + 1 THEN 0
                 ELSE Min2(Max2(centerX - x, x - centerX),
                           Max2(centerX - x - 1, x + 1 - centerX))
        nearY == IF y <= centerY /\ centerY <= y + 1 THEN 0
                 ELSE Min2(Max2(centerY - y, y - centerY),
                           Max2(centerY - y - 1, y + 1 - centerY))
    IN  IF (farX * farX + farY * farY) * FP * FP <= radius * radius THEN "all"
        ELSE IF (nearX * nearX + nearY * nearY) * FP * FP >= radius * radius THEN "none"
        ELSE "part"

\* one iteration of the inner loop for cell (gridX, gridY): what it samples
\* and what it draws
CellDraw(args, gridX, gridY) ==
    LET startX == gridX * HalftoneCellSize
        startY == gridY * HalftoneCellSize
        endX == Min2(startX + HalftoneCellSize, args.width)
        endY == Min2(startY + HalftoneCellSize, args.height)
        sampleCount == (endX - startX) * (endY - startY)
        totalLuminance == TotalLuminance(args.imageData, args.width,
                                         startX, endX, startY, endY)
    IN  \* sampleCount > 0 in every cell the loops reach
        Only({ [gridX |-> gridX, gridY |-> gridY, startX |-> startX, startY |-> startY,
                endX |-> endX, endY |-> endY, sampleCount |-> sampleCount,
                normalizedLuminance |-> n,
                centerX |-> startX + HalftoneCellSize \div 2,
                centerY |-> startY + HalftoneCellSize \div 2,
                radius |-> IF IsSolidShadow(n) \/ IsSolidHighlight(n) THEN 0
                           ELSE DotRadius(n),
                shape |-> IF IsSolidShadow(n) THEN "none"
                          ELSE IF IsSolidHighlight(n) THEN "rect"
                          ELSE IF DotIsDrawn(n) THEN "disc" ELSE "none"] :
               n \in { enhanceContrast(Normalize(totalLuminance \div sampleCount,
                                                 args.minLuminance,
                                                 args.luminanceRange)) } })

\* the canvas after the draw: fillRect of the clipped cell, or the filled arc
Paint(surface, width, draw) ==
    [i \in 1..Len(surface) |->
        LET x == (i - 1) % width
            y == (i - 1) \div width
        IN  IF draw.shape = "rect"
            THEN (IF draw.startX <= x /\ x < draw.endX /\ draw.startY <= y /\ y < draw.endY
                  THEN "highlight" ELSE surface[i])
            ELSE IF draw.shape = "disc"
            THEN (LET cover == DiscCoverage(x, y, draw.centerX, draw.centerY, draw.radius)
                  IN  IF cover = "all" THEN "highlight"
                      ELSE IF cover = "part" /\ surface[i] # "highlight" THEN "blend"
                      ELSE surface[i])
            ELSE surface[i]]

\* the arguments the halftone branch of processImageOnCanvas passes
HalftoneArgs(call) ==
    LET dims == calculateDimensions(call.img.naturalWidth, call.img.naturalHeight)
    IN  Only({ [imageData |-> data, width |-> dims.width, height |-> dims.height,
                shadowColor |-> ShadowColor(palette, call.isReversed,
                                            call.useClassicColors),
                highlightColor |-> HighlightColor(palette, call.isReversed,
                                                  call.useClassicColors),
                minLuminance |-> MinLuminance(data),
                luminanceRange |-> LuminanceRange(MinLuminance(data),
                                                  MaxLuminance(data))] :
               data \in { DrawImage(ResizeCanvas(EmptyCanvas, dims.width, dims.height),
                                    call.img, dims.width, dims.height).data } })

\* images made of cells of 12 x 12 pixels, each of one gray level, plain or
\* with every other column black
ScreenLevels == { 0, 96, 128, 192, 255 }
CellImage(w, h, levels, striped) ==
    MkImage(w, h,
        [i \in 1..(w * h) |->
            LET x == (i - 1) % w
                y == (i - 1) \div w
                level == levels[(y \div HalftoneCellSize) * CellsAcross(w)
                                + (x \div HalftoneCellSize) + 1]
            IN  IF striped /\ x % 2 = 1 THEN Px(0, 0, 0, 255)
                ELSE Px(level, level, level, 255)])
ScreenSizes == { HalftoneCellSize, MaxScreenW } \X { 1, MaxScreenH }
ScreenCalls ==
    UNION { { Call(CellImage(s[1], s[2], levels, striped), FALSE, FALSE, TRUE, <<>>) :
                levels \in [1..(CellsAcross(s[1]) * CellsAcross(s[2])) -> ScreenLevels],
                striped \in BOOLEAN } :
            s \in ScreenSizes }

InitScreen ==
    /\ canvas = EmptyCanvas
    /\ last = Unprocessed(NoCall, "none")
    /\ dirty = FALSE
    /\ dimCall = NoDimCall
    /\ palette = ColorTables
    /\ pipe = NoPipe
    /\ curveCall = NoCurveCall
    /\ jobs = NoJobs
    /\ page = NewPage
    /\ screen \in { [NoScreen EXCEPT !.call = call] : call \in ScreenCalls }

\* the halftone branch up to the first iteration: ctx.fillRect(0, 0, width,
\* height) in the shadow colour and the call of applyHalftoneEffect
CallHalftone ==
    /\ screen.pc = "idle"
    /\ \E args \in { HalftoneArgs(screen.call) } :
          screen' = [screen EXCEPT
                        !.pc = "cells", !.args = args, !.gridX = 0, !.gridY = 0,
                        !.surface = [i \in 1..(args.width * args.height) |-> "shadow"],
                        !.draws = <<>>]
    /\ UNCHANGED <<canvas, last, dirty, dimCall, palette, pipe, curveCall, jobs, page>>

\* one iteration of the inner loop
CellStep ==
    /\ screen.pc = "cells"
    /\ screen.gridY < CellsAcross(screen.args.height)
    /\ screen.gridX < CellsAcross(screen.args.width)
    /\ \E draw \in { CellDraw(screen.args, screen.gridX, screen.gridY) } :
          screen' = [screen EXCEPT
                        !.surface = Paint(@, screen.args.width, draw),
                        !.draws = Append(@, draw),
                        !.gridX = screen.gridX + 1]
    /\ UNCHANGED <<canvas, last, dirty, dimCall, palette, pipe, curveCall, jobs, page>>

\* the inner loop ends: the next row of cells
NextRow ==
    /\ screen.pc = "cells"
    /\ screen.gridY < CellsAcross(screen.args.height)
    /\ screen.gridX >= CellsAcross(screen.args.width)
    /\ screen' = [screen EXCEPT !.gridX = 0, !.gridY = screen.gridY + 1]
    /\ UNCHANGED <<canvas, last, dirty, dimCall, palette, pipe, curveCall, jobs, page>>

\* the outer loop ends and applyHalftoneEffect returns
FinishHalftone ==
    /\ screen.pc = "cells"
    /\ screen.gridY >= CellsAcross(screen.args.height)
    /\ screen' = [screen EXCEPT !.pc = "done"]
    /\ UNCHANGED <<canvas, last, dirty, dimCall, palette, pipe, curveCall, jobs, page>>

NextScreen == CallHalftone \/ CellStep \/ NextRow \/ FinishHalftone

SpecScreen == InitScreen /\ [][NextScreen]_vars

(***************************************************************************)
(* Properties.                                                             *)
(***************************************************************************)
Processed == last.outcome \in {"returned", "threw"}
Returned == last.outcome = "returned"
Continuous == ~last.call.useHalftone
Raster == last.call.useHalftone
DefaultRaster == Raster /\ Len(last.call.rasterSettings) = 0
Pixels == 1..Len(canvas.data)
ZeroArea(img) == img.naturalWidth = 0 \/ img.naturalHeight = 0
SameRGB(p, q) == p.r = q.r /\ p.g = q.g /\ p.b = q.b
HasRGB(p, r, g, b) == p.r = r /\ p.g = g /\ p.b = b
\* every pixel of the image has the RGB of the first
Uniform(img) ==
    /\ ~ZeroArea(img)
    /\ \A i \in 1..Len(img.data) : SameRGB(img.data[i], img.data[1])
Between(v, a, b) == Min2(a, b) <= v /\ v <= Max2(a, b)
\* k is Math.round(n / d): k - 1/2 <= n/d < k + 1/2
IsRounded(k, n, d) == 2 * k * d - d <= 2 * n /\ 2 * n < 2 * k * d + d

\* C1: calculateDimensions returns a pair within 3000 x 3000 unchanged and
\* otherwise both dimensions scaled by 3000 / max(width, height) and rounded
\* to the nearest integer, so that both are at most 3000 and the larger is
\* exactly 3000; (4000,2000) gives (3000,1500), (2000,1000) and (3000,3000)
\* stay as they are.
C1_Dimensions ==
    dimCall.done =>
        LET w == dimCall.originalWidth
            h == dimCall.originalHeight
            m == Max2(w, h)
        IN  /\ (w <= 3000 /\ h <= 3000) =>
                    (dimCall.width = w /\ dimCall.height = h)
            /\ (w > 3000 \/ h > 3000) =>
                    /\ IsRounded(dimCall.width, w * 3000, m)
                    /\ IsRounded(dimCall.height, h * 3000, m)
                    /\ dimCall.width <= 3000 /\ dimCall.height <= 3000
                    /\ Max2(dimCall.width, dimCall.height) = 3000
            /\ (w = 4000 /\ h = 2000) => (dimCall.width = 3000 /\ dimCall.height = 1500)
            /\ (w = 2000 /\ h = 1000) => (dimCall.width = 2000 /\ dimCall.height = 1000)
            /\ (w = 3000 /\ h = 3000) => (dimCall.width = 3000 /\ dimCall.height = 3000)

\* a pair that is scaled, with a quotient that has to be rounded up
C1_Witness ==
    /\ dimCall.done
    /\ dimCall.originalWidth = 4500 /\ dimCall.originalHeight = 1000
    /\ dimCall.width = 3000 /\ dimCall.height = 667

\* C2: after a render every pixel of the output has the alpha of the input
\* pixel in continuous mode and alpha 255 in raster mode.
C2_Alpha ==
    Returned =>
        /\ Len(canvas.data) = Len(last.call.img.data)
        /\ \A i \in Pixels :
              canvas.data[i].a = IF Continuous THEN last.call.img.data[i].a ELSE 255

\* a continuous render of an image with a half-transparent and a fully
\* transparent pixel
C2_Witness ==
    /\ Returned /\ Continuous
    /\ \E i \in Pixels : last.call.img.data[i].a = 128
    /\ \E i \in Pixels : last.call.img.data[i].a = 0

\* C3: in continuous mode every output R, G and B lies between the shadow
\* and the highlight value of that channel, inclusive.
C3_NoOvershoot ==
    (Returned /\ Continuous) =>
        \A i \in Pixels :
            /\ Between(canvas.data[i].r, last.shadowColor.r, last.highlightColor.r)
            /\ Between(canvas.data[i].g, last.shadowColor.g, last.highlightColor.g)
            /\ Between(canvas.data[i].b, last.shadowColor.b, last.highlightColor.b)

\* a continuous render that produced a pixel strictly between the two colours
C3_Witness ==
    /\ Returned /\ Continuous
    /\ \E i \in Pixels :
          /\ canvas.data[i].r # last.shadowColor.r
          /\ canvas.data[i].r # last.highlightColor.r

AllRGB(img, level) ==
    /\ ~ZeroArea(img)
    /\ \A i \in 1..Len(img.data) : HasRGB(img.data[i], level, level, level)

\* C5: raster mode, default raster parameters, fully black image: the joined
\* map is 0 at every pixel and every output pixel is the shadow colour.
C5_BlackIsShadow ==
    (Returned /\ DefaultRaster /\ AllRGB(last.call.img, 0)) =>
        \A i \in Pixels :
            /\ last.joinedMap[i] = 0
            /\ SameRGB(canvas.data[i], last.shadowColor)

\* a black image in which the threshold pass marks a pixel (the pixel lies
\* within the smallest raster radius of a cell centre)
C5_Witness ==
    /\ Returned /\ DefaultRaster /\ AllRGB(last.call.img, 0)
    /\ \E i \in Pixels : last.thresholdMap[i] = 1

\* C6 as stated: raster mode, default raster parameters, fully white image:
\* more than half of the output pixels are the highlight colour.
C6_AsStated ==
    (Returned /\ DefaultRaster /\ AllRGB(last.call.img, 255)) =>
        2 * Cardinality({ i \in Pixels : last.joinedMap[i] = 1
                                          /\ SameRGB(canvas.data[i], last.highlightColor) })
            > Len(canvas.data)

DegenerateCellSize ==
    /\ Raster /\ Len(last.call.rasterSettings) = 1
    /\ last.call.rasterSettings[1].cellSize <= 0

\* C7 as stated: a raster call with cellSize <= 0 is rejected with an error
\* and produces no output image.
C7_AsStated ==
    (Processed /\ DegenerateCellSize) =>
        (last.outcome = "threw" /\ last.dimensions = NoDimensions)

\* C8 as stated: a raster call with non-positive brightness or contrast is
\* rejected, and the rejection leaves the canvas (size and pixels) as it was.
C8_AsStated ==
    [][ (/\ last'.call.useHalftone
         /\ Len(last'.call.rasterSettings) = 1
         /\ \/ last'.call.rasterSettings[1].brightness <= 0
            \/ last'.call.rasterSettings[1].contrast <= 0)
        => (last'.outcome = "threw" /\ canvas' = canvas) ]_vars

\* C9: a call whose image has zero area fails with an error and returns no
\* result.
C9_ZeroAreaThrows ==
    (Processed /\ ZeroArea(last.call.img)) =>
        (last.outcome = "threw" /\ last.dimensions = NoDimensions)

\* a processed call with an image of width 0 and height 1
C9_Witness ==
    /\ Processed
    /\ last.call.img.naturalWidth = 0 /\ last.call.img.naturalHeight = 1
    /\ last.outcome = "threw"

\* C10: a continuous render leaves on the canvas, and returns as dimensions,
\* what the same call leaves and returns on a fresh canvas: nothing of what
\* the canvas held before the call survives.
C10_NoHiddenState ==
    (Processed /\ Continuous) =>
        LET fresh == processImageOnCanvas(palette, last.call.img, EmptyCanvas,
                         last.call.isReversed, last.call.useClassicColors,
                         last.call.useHalftone, last.call.rasterSettings)
        IN  /\ canvas = fresh.canvas
            /\ last.outcome = fresh.outcome
            /\ last.dimensions = fresh.dimensions

\* a continuous render of an image with a fully transparent pixel on a
\* canvas that showed an earlier result
C10_Witness ==
    /\ Returned /\ Continuous /\ dirty
    /\ \E i \in Pixels : last.call.img.data[i].a = 0

\* the pixel buffer the luminance analyzer ran on
Buffer == 1..Len(last.input)

\* C11: after the min/max pass every pixel's luminance lies between
\* minLuminance and maxLuminance, both are the luminance of some pixel and
\* maxLuminance >= minLuminance; the range used for normalization is
\* maxLuminance - minLuminance when that is positive and 1 when the two are
\* equal, so it is never 0 and a flat image is rendered, not rejected.
C11_LuminanceBounds ==
    Returned =>
        /\ \A i \in Buffer :
              /\ last.minLuminance <= Luminance(last.input[i])
              /\ Luminance(last.input[i]) <= last.maxLuminance
        /\ \E i \in Buffer : Luminance(last.input[i]) = last.minLuminance
        /\ \E i \in Buffer : Luminance(last.input[i]) = last.maxLuminance
        /\ last.maxLuminance >= last.minLuminance
        /\ last.luminanceRange =
              IF last.maxLuminance - last.minLuminance > 0
              THEN last.maxLuminance - last.minLuminance
              ELSE LumUnit
        /\ last.luminanceRange > 0

\* a render of a flat image of several pixels, none of them black: the bounds
\* coincide and the unit range is used
C11_Witness ==
    /\ Returned
    /\ Len(last.input) >= 2
    /\ last.minLuminance = last.maxLuminance
    /\ last.minLuminance > 0
    /\ last.luminanceRange = LumUnit

\* the regular duotone loop run from the last pixel down to pixel i
RECURSIVE DuotoneLoopDown(_, _, _, _, _, _)
DuotoneLoopDown(data, i, shadowColor, highlightColor, minLuminance, luminanceRange) ==
    IF i < 1 THEN data
    ELSE DuotoneLoopDown(
            [data EXCEPT ![i] = DuotonePixel(data[i], shadowColor, highlightColor,
                                             minLuminance, luminanceRange)],
            i - 1, shadowColor, highlightColor, minLuminance, luminanceRange)

\* the image with pixel j replaced by q
WithPixel(img, j, q) == [img EXCEPT !.data[j] = q]

\* replacing pixel j of the image of the last call by q changes the image and
\* leaves the smallest and the largest luminance as they are
SameBounds(j, q) ==
    /\ q # last.call.img.data[j]
    /\ MinLuminance(WithPixel(last.call.img, j, q).data) = last.minLuminance
    /\ MaxLuminance(WithPixel(last.call.img, j, q).data) = last.maxLuminance

\* C12: continuous mode is an elementwise map of the source pixels: output
\* pixel i is the remap of source pixel i under the minLuminance and range of
\* the source buffer; processing the pixels in the opposite order gives the
\* same output; and an image that differs in its first or in its last pixel
\* but has the same minLuminance and maxLuminance gives the same output at
\* every pixel where the two agree.
C12_Elementwise ==
    (Returned /\ Continuous) =>
        /\ \A i \in Pixels :
              canvas.data[i] = DuotonePixel(last.input[i], last.shadowColor,
                                            last.highlightColor,
                                            MinLuminance(last.input),
                                            LuminanceRange(MinLuminance(last.input),
                                                           MaxLuminance(last.input)))
        /\ canvas.data = DuotoneLoopDown(last.input, Len(last.input), last.shadowColor,
                                         last.highlightColor, last.minLuminance,
                                         last.luminanceRange)
        /\ \A j \in {1, Len(last.input)}, q \in PixelChoices :
              SameBounds(j, q) => \A other \in { processImageOnCanvas(palette, WithPixel(last.call.img, j, q),
                                 EmptyCanvas, last.call.isReversed,
                                 last.call.useClassicColors, last.call.useHalftone,
                                 last.call.rasterSettings) } :
                  (/\ other.minLuminance = last.minLuminance
                   /\ other.maxLuminance = last.maxLuminance) =>
                      \A i \in Pixels :
                          (other.input[i] = last.input[i]) =>
                              other.canvas.data[i] = canvas.data[i]

\* a continuous render of an image of at least three pixels with three
\* different luminances, the darkest of which is remapped first: replacing
\* the middle one by another value leaves minLuminance and maxLuminance as
\* they are
C12_Witness ==
    /\ Returned /\ Continuous
    /\ Len(last.input) >= 3
    /\ Luminance(last.input[1]) = last.minLuminance
    /\ \E i, j \in Buffer :
          /\ Luminance(last.input[i]) = last.maxLuminance
          /\ last.minLuminance < Luminance(last.input[j])
          /\ Luminance(last.input[j]) < last.maxLuminance
    /\ canvas.data[1] # last.input[1]

RGB(r, g, b) == [r |-> r, g |-> g, b |-> b]

\* C13: the colour pair of a render is, without isReversed, shadow (22,80,39)
\* and highlight (249,159,210) of the optimized palette or shadow (27,96,47)
\* and highlight (247,132,197) of the classic one, and with isReversed the
\* same two colours exchanged; the colour objects hold these values before
\* and after every render.
C13_ColourPair ==
    /\ palette.optimized.shadow = RGB(22, 80, 39)
    /\ palette.optimized.highlight = RGB(249, 159, 210)
    /\ palette.classic.shadow = RGB(27, 96, 47)
    /\ palette.classic.highlight = RGB(247, 132, 197)
    /\ Returned =>
          LET shadow == IF last.call.useClassicColors THEN RGB(27, 96, 47)
                                                      ELSE RGB(22, 80, 39)
              highlight == IF last.call.useClassicColors THEN RGB(247, 132, 197)
                                                         ELSE RGB(249, 159, 210)
          IN  /\ ~last.call.isReversed =>
                    (last.shadowColor = shadow /\ last.highlightColor = highlight)
              /\ last.call.isReversed =>
                    (last.shadowColor = highlight /\ last.highlightColor = shadow)

\* a reversed render with the classic palette on a canvas that showed an
\* earlier result
C13_Witness ==
    /\ Returned /\ dirty
    /\ last.call.isReversed /\ last.call.useClassicColors
    /\ last.shadowColor = RGB(247, 132, 197)
    /\ last.highlightColor = RGB(27, 96, 47)

\* C14: a raster render runs the pipeline with brightness 1.3, contrast 1.0
\* and cellSize 8 when no rasterSettings are given and with exactly the
\* given values otherwise; a continuous render does not run the pipeline and
\* is what it is without rasterSettings.
C14_RasterDefaults ==
    Returned =>
        LET given == last.call.rasterSettings
            used == IF Len(given) = 0
                    THEN [brightness |-> 13, contrast |-> 10, cellSize |-> 8]
                    ELSE given[1]
        IN  /\ Raster =>
                  /\ last.rasterParameters = <<used>>
                  /\ canvas.data =
                        applyRasterizationPipeline(last.input, canvas.width,
                            canvas.height, last.shadowColor, last.highlightColor,
                            last.minLuminance, last.luminanceRange, used.brightness,
                            used.contrast, used.cellSize).outputData
            /\ Continuous =>
                  /\ last.rasterParameters = <<>>
                  /\ last.adjustedGrayscale = <<>>
                  /\ last.thresholdMap = <<>> /\ last.joinedMap = <<>>
                  /\ canvas = processImageOnCanvas(palette, last.call.img, EmptyCanvas,
                                  last.call.isReversed, last.call.useClassicColors,
                                  FALSE, <<>>).canvas

\* a raster render with settings that differ from the defaults and show in
\* the output: with the given cellSize a pixel is joined
C14_Witness ==
    /\ Returned /\ Raster
    /\ Len(last.call.rasterSettings) = 1
    /\ last.call.rasterSettings[1].cellSize # 8
    /\ \E i \in Pixels : last.joinedMap[i] = 1

\* C15: after a raster render every pixel has exactly the RGB of the
\* highlight colour where the joined map is 1 and exactly the RGB of the
\* shadow colour where it is not, and the output has the width and height of
\* the normalized input.
C15_TwoColours ==
    (Returned /\ Raster) =>
        /\ last.dimensions = calculateDimensions(last.call.img.naturalWidth,
                                                 last.call.img.naturalHeight)
        /\ canvas.width = last.dimensions.width
        /\ canvas.height = last.dimensions.height
        /\ Len(canvas.data) = canvas.width * canvas.height
        /\ Len(last.joinedMap) = Len(canvas.data)
        /\ \A i \in Pixels :
              /\ last.joinedMap[i] \in {0, 1}
              /\ last.joinedMap[i] = 1 => SameRGB(canvas.data[i], last.highlightColor)
              /\ last.joinedMap[i] = 0 => SameRGB(canvas.data[i], last.shadowColor)

\* a raster render whose output shows both colours
C15_Witness ==
    /\ Returned /\ Raster
    /\ \E i, j \in Pixels :
          /\ last.joinedMap[i] = 1 /\ SameRGB(canvas.data[i], last.highlightColor)
          /\ last.joinedMap[j] = 0 /\ SameRGB(canvas.data[j], last.shadowColor)

\* the pixel coordinates of the last render
Coordinates == (0..(canvas.width - 1)) \X (0..(canvas.height - 1))
\* the join window of pixel c of the last raster render
Window(c) ==
    JoinSamples(c[1], c[2], canvas.width, canvas.height,
                last.rasterParameters[1].cellSize)
\* the number of samples of a join window that lies inside the image
FullWindow == (2 * KernelSize(last.rasterParameters[1].cellSize) + 1)
                * (2 * KernelSize(last.rasterParameters[1].cellSize) + 1)

\* C16: in a raster render the pixel buffer, the adjusted grayscale, the two
\* maps and the output all have width * height elements, every pixel index
\* lies in them, every sample read by the join pass has coordinates inside
\* the image and an index inside the threshold map, and every join window
\* holds its own pixel, so totalCount is at least 1.
C16_InBounds ==
    (Returned /\ Raster) =>
        LET n == canvas.width * canvas.height
        IN  /\ Len(last.input) = n
            /\ Len(last.adjustedGrayscale) = n
            /\ Len(last.thresholdMap) = n
            /\ Len(last.joinedMap) = n
            /\ Len(canvas.data) = n
            /\ \A c \in Coordinates :
                  /\ c[2] * canvas.width + c[1] \in 0..(n - 1)
                  /\ c \in Window(c)
                  /\ Cardinality(Window(c)) >= 1
                  /\ \A s \in Window(c) :
                        /\ s[1] \in 0..(canvas.width - 1)
                        /\ s[2] \in 0..(canvas.height - 1)
                        /\ s[2] * canvas.width + s[1] \in 0..(n - 1)

\* a raster render in which one join window lies inside the image and
\* another is cut by its edge
C16_Witness ==
    /\ Returned /\ Raster
    /\ \E c \in Coordinates : Cardinality(Window(c)) = FullWindow
    /\ \E c \in Coordinates : Cardinality(Window(c)) < FullWindow

\* the pixels of the image in the square of half-width k around pixel c
Square(c, k) ==
    { s \in ((c[1] - k)..(c[1] + k)) \X ((c[2] - k)..(c[2] + k)) : s \in Coordinates }
\* those of them whose threshold-map value is 1
OnIn(S) == { s \in S : last.thresholdMap[s[2] * canvas.width + s[1] + 1] = 1 }
\* max(1, floor(cellSize / 4)) for the cellSize of the last raster render
HalfWidth ==
    IF last.rasterParameters[1].cellSize >= 8
    THEN last.rasterParameters[1].cellSize \div 4
    ELSE 1

\* C17: after a raster render the joined map is 1 at pixel (x, y) if and only
\* if, with k = max(1, floor(cellSize / 4)), the pixels of the image in the
\* square [x-k, x+k] x [y-k, y+k] whose threshold-map value is 1 are strictly
\* more than 0.3 of the pixels of the image in that square; at exactly 0.3
\* it is 0.
C17_Join ==
    (Returned /\ Raster) =>
        \A c \in Coordinates :
            LET total == Cardinality(Square(c, HalfWidth))
                on == Cardinality(OnIn(Square(c, HalfWidth)))
                joined == last.joinedMap[c[2] * canvas.width + c[1] + 1]
            IN  /\ joined = 1 <=> 10 * on > 3 * total
                /\ 10 * on = 3 * total => joined = 0

\* a raster render with k = 2 and a pixel at an edge with 6 of the 20 pixels
\* of its square on, which is not joined
C17_Witness ==
    /\ Returned /\ Raster
    /\ HalfWidth = 2
    /\ \E c \in Coordinates :
          /\ Cardinality(Square(c, HalfWidth)) = 20
          /\ Cardinality(OnIn(Square(c, HalfWidth))) = 6
          /\ last.joinedMap[c[2] * canvas.width + c[1] + 1] = 0

\* the loops of the pipeline in the order of the source, and the array each
\* of them writes
StageOrder == <<"grayscale", "levels", "threshold", "join", "render", "done">>
StageArray == <<"grayscaleData", "adjustedGrayscale", "thresholdMap", "joinedMap",
                "outputData">>
Rank(pc) == CHOOSE k \in 1..Len(StageOrder) : StageOrder[k] = pc
Running(p) == p.pc \in { StageOrder[k] : k \in 1..Len(StageOrder) }
Zeros(n) == [k \in 1..n |-> 0]

\* C18: every step of a raster render is the start of a call with no map
\* left from an earlier call, one more element of the current stage, or the
\* move to the next stage in the order grayscale, levels, threshold, join,
\* render, taken when the current stage has written its whole array and
\* beginning with a newly allocated array; a step reads only elements of
\* arrays that were completely written before it, a join step reads only the
\* threshold map; and the finished call has the maps and the output that its
\* arguments alone determine.
C18_StageOrder ==
    [][ pipe' # pipe =>
          /\ \/ /\ pipe.pc \in {"idle", "done"}
                /\ pipe'.pc = "grayscale" /\ pipe'.i = 1
                /\ pipe'.thresholdMap = <<>> /\ pipe'.joinedMap = <<>>
                /\ pipe'.adjustedGrayscale = <<>> /\ pipe'.outputData = <<>>
                /\ pipe'.grayscaleData = Zeros(Size(pipe'))
             \/ /\ Running(pipe) /\ pipe'.pc = pipe.pc
                /\ pipe.i <= Size(pipe) /\ pipe'.i = pipe.i + 1
             \/ /\ Running(pipe) /\ pipe.pc # "done"
                /\ pipe'.pc = StageOrder[Rank(pipe.pc) + 1]
                /\ pipe.written[StageArray[Rank(pipe.pc)]] = 1..Size(pipe)
                /\ pipe'.pc \in {"threshold", "join"} =>
                      /\ pipe'[StageArray[Rank(pipe'.pc)]] = Zeros(Size(pipe))
                      /\ pipe'.written[StageArray[Rank(pipe'.pc)]] = {}
          /\ \A r \in pipe'.reads : pipe.written[r[1]] = 1..Size(pipe)
          /\ pipe.pc = "join" => \A r \in pipe'.reads : r[1] = "thresholdMap"
          /\ pipe'.pc = "done" =>
                \A whole \in { applyRasterizationPipeline(
                                  pipe'.args.originalImageData, pipe'.args.width,
                                  pipe'.args.height, pipe'.args.shadowColor,
                                  pipe'.args.highlightColor, pipe'.args.minLuminance,
                                  pipe'.args.luminanceRange, pipe'.args.brightness,
                                  pipe'.args.contrast, pipe'.args.cellSize) } :
                    /\ pipe'.thresholdMap = whole.thresholdMap
                    /\ pipe'.joinedMap = whole.joinedMap
                    /\ pipe'.outputData = whole.outputData ]_vars

\* a second call in its join pass, past its first pixel, over a threshold map
\* with a 1 and a 0
C18_Witness ==
    /\ pipe.again /\ pipe.pc = "join" /\ pipe.i > 1
    /\ \E k \in 1..Size(pipe) : pipe.thresholdMap[k] = 1
    /\ \E k \in 1..Size(pipe) : pipe.thresholdMap[k] = 0

\* C19: enhanceContrast maps 0 to 0, 1 to 1 and 0.5 to 0.5, maps [0,1] into
\* [0,1] and does not decrease from one value of [0,1] to the next, also
\* from the last value below 0.5 to the first value of the other branch.
C19_Curve ==
    curveCall.done =>
        /\ 0 <= curveCall.result /\ curveCall.result <= FP
        /\ curveCall.value = 0 => curveCall.result = 0
        /\ curveCall.value = FP => curveCall.result = FP
        /\ 2 * curveCall.value = FP => 2 * curveCall.result = FP
        /\ curveCall.value < FP =>
              curveCall.result <= enhanceContrast(curveCall.value + 1)
        /\ curveCall.value > 0 =>
              enhanceContrast(curveCall.value - 1) <= curveCall.result

\* the call on the last value below 0.5: the next value is computed by the
\* other branch
C19_Witness ==
    /\ curveCall.done
    /\ 2 * curveCall.value < FP /\ 2 * (curveCall.value + 1) >= FP
    /\ curveCall.result > 0
    /\ curveCall.result <= enhanceContrast(curveCall.value + 1)

\* the cellSize of the last raster render
CellSize == last.rasterParameters[1].cellSize
\* rotatedX and rotatedY of pixel c of the last render
RX(c) == RotatedX(c[1], c[2], canvas.width, canvas.height)
RY(c) == RotatedY(c[1], c[2], canvas.width, canvas.height)
\* pixel c lies within the raster radius of its cell's centre: the distance
\* of its cell offsets from (cellSize / 2, cellSize / 2) is at most
\* (adjusted value of c / 255) * cellSize / 2 (the squares, both sides by 4)
InDisk(c) ==
    LET value == last.adjustedGrayscale[c[2] * canvas.width + c[1] + 1]
        dx == 2 * CellOffset(RX(c), CellSize) - CellSize * FP
        dy == 2 * CellOffset(RY(c), CellSize) - CellSize * FP
        diameter == (value \div 255) * CellSize
    IN  value # NaN /\ dx * dx + dy * dy <= diameter * diameter

\* C20 as stated: in a raster render with cellSize >= 1 the cell offsets of
\* every pixel lie in [0, cellSize), also where rotatedX or rotatedY is
\* negative, and the threshold map is 1 at a pixel if and only if the pixel's
\* offsets are within (adjusted value / 255) * cellSize / 2 of the cell
\* centre, for that pixel's own adjusted value.
C20_AsStated ==
    (Returned /\ Raster /\ CellSize >= 1) =>
        \A c \in Coordinates :
            /\ 0 <= CellOffset(RX(c), CellSize)
            /\ CellOffset(RX(c), CellSize) < CellSize * FP
            /\ 0 <= CellOffset(RY(c), CellSize)
            /\ CellOffset(RY(c), CellSize) < CellSize * FP
            /\ last.thresholdMap[c[2] * canvas.width + c[1] + 1] =
                  IF InDisk(c) THEN 1 ELSE 0

\* C20 amended: in a raster render with cellSize >= 1 the cell offsets of
\* every pixel lie in [0, cellSize], also where rotatedX or rotatedY is
\* negative, and reach cellSize only where the rotated coordinate is a
\* negative number that the addition of cellSize absorbs; the threshold map
\* is 1 at a pixel if and only if the pixel's offsets are within
\* (adjusted value / 255) * cellSize / 2 of the cell centre, for that pixel's
\* own adjusted value.
C20_Threshold ==
    (Returned /\ Raster /\ CellSize >= 1) =>
        \A c \in Coordinates :
            /\ 0 <= CellOffset(RX(c), CellSize)
            /\ CellOffset(RX(c), CellSize) <= CellSize * FP
            /\ CellOffset(RX(c), CellSize) = CellSize * FP =>
                  (RX(c).main = 0 /\ RX(c).tiny < 0)
            /\ 0 <= CellOffset(RY(c), CellSize)
            /\ CellOffset(RY(c), CellSize) <= CellSize * FP
            /\ CellOffset(RY(c), CellSize) = CellSize * FP =>
                  (RY(c).main = 0 /\ RY(c).tiny < 0)
            /\ last.thresholdMap[c[2] * canvas.width + c[1] + 1] =
                  IF InDisk(c) THEN 1 ELSE 0

\* a raster render with a marked pixel of negative rotatedX and rotatedY, a
\* pixel whose cell offset is cellSize and a pixel that is not marked
C20_Witness ==
    /\ Returned /\ Raster /\ CellSize >= 1
    /\ \E c \in Coordinates :
          /\ RX(c).main < 0 /\ RY(c).main < 0
          /\ last.thresholdMap[c[2] * canvas.width + c[1] + 1] = 1
    /\ \E c \in Coordinates : CellOffset(RX(c), CellSize) = CellSize * FP
    /\ \E c \in Coordinates : last.thresholdMap[c[2] * canvas.width + c[1] + 1] = 0

(***************************************************************************)
(* C22                                                                     *)
(***************************************************************************)
\* C22 as stated: for all originalWidth >= 1 and originalHeight >= 1 both the
\* width and the height returned by calculateDimensions are >= 1.
C22_AsStated ==
    (dimCall.done /\ dimCall.originalWidth >= 1 /\ dimCall.originalHeight >= 1) =>
        (dimCall.width >= 1 /\ dimCall.height >= 1)

(***************************************************************************)
(* C23                                                                     *)
(***************************************************************************)
\* the parameters of the last raster render
Brightness == last.rasterParameters[1].brightness
Contrast == last.rasterParameters[1].contrast
\* 0.05 * 255 and 255, in the units of the adjusted values
LiftFloor == ((5 * FP) \div 100) * 255
LiftCeiling == FP * 255

\* C23: in a raster render with brightness > 0 and contrast > 0 every
\* adjusted grayscale value written by the level adjustment lies in
\* [0.05 * 255, 255], and so for cellSize >= 1 the raster radius
\* (value / 255 * cellSize) / 2 of every pixel is strictly positive.
C23_LevelRange ==
    (Returned /\ Raster /\ Brightness > 0 /\ Contrast > 0) =>
        \A i \in 1..Len(last.adjustedGrayscale) :
            /\ last.adjustedGrayscale[i] >= LiftFloor
            /\ last.adjustedGrayscale[i] <= LiftCeiling
            /\ CellSize >= 1 => (last.adjustedGrayscale[i] \div 255) * CellSize > 0

\* a raster render under settings other than the defaults whose darkest
\* pixel is adjusted to 0.05 * 255 and whose brightest to 255
C23_Witness ==
    /\ Returned /\ Raster /\ Brightness > 0 /\ Contrast > 0 /\ CellSize >= 1
    /\ ~DefaultRaster
    /\ \E i \in 1..Len(last.adjustedGrayscale) : last.adjustedGrayscale[i] = LiftFloor
    /\ \E i \in 1..Len(last.adjustedGrayscale) : last.adjustedGrayscale[i] = LiftCeiling

(***************************************************************************)
(* C24                                                                     *)
(***************************************************************************)
\* the render of the all-black image of the size of the last call's image,
\* under the last call's parameters
BlackRender ==
    processImageOnCanvas(palette,
        Flat(last.call.img.naturalWidth, last.call.img.naturalHeight, 0),
        EmptyCanvas, last.call.isReversed, last.call.useClassicColors,
        last.call.useHalftone, last.call.rasterSettings)

\* C24 as stated: the render of a uniform image has at every pixel the RGB of
\* the render of the all-black image of the same dimensions under the same
\* parameters, in continuous mode and in raster mode (so any two uniform
\* images of the same dimensions render alike).
C24_AsStated ==
    (Returned /\ Uniform(last.call.img)) =>
        \E black \in { BlackRender } :
            /\ black.outcome = "returned"
            /\ \A i \in Pixels : SameRGB(canvas.data[i], black.canvas.data[i])

(***************************************************************************)
(* C25                                                                     *)
(***************************************************************************)
\* C25: in a continuous render of an image with maxLuminance > minLuminance
\* every pixel whose luminance is minLuminance is output with exactly the
\* shadow colour and every pixel whose luminance is maxLuminance with exactly
\* the highlight colour, so that both colours occur in the output.
C25_EndPoints ==
    (Returned /\ Continuous /\ last.maxLuminance > last.minLuminance) =>
        /\ \A i \in Buffer :
              /\ Luminance(last.input[i]) = last.minLuminance =>
                    SameRGB(canvas.data[i], last.shadowColor)
              /\ Luminance(last.input[i]) = last.maxLuminance =>
                    SameRGB(canvas.data[i], last.highlightColor)
        /\ \E i \in Buffer : SameRGB(canvas.data[i], last.shadowColor)
        /\ \E i \in Buffer : SameRGB(canvas.data[i], last.highlightColor)

\* a reversed continuous render of an image with three different
\* luminances, the largest below 255
C25_Witness ==
    /\ Returned /\ Continuous /\ last.call.isReversed
    /\ last.maxLuminance < 255 * LumUnit
    /\ \E i \in Buffer :
          /\ Luminance(last.input[i]) > last.minLuminance
          /\ Luminance(last.input[i]) < last.maxLuminance

(***************************************************************************)
(* C26                                                                     *)
(***************************************************************************)
\* the last call with isReversed and useClassicColors replaced, on canvas c
Rerender(c, isReversed, useClassicColors) ==
    processImageOnCanvas(palette, last.call.img, c, isReversed, useClassicColors,
                         last.call.useHalftone, last.call.rasterSettings)
IsHighlight(res, i) == SameRGB(res.canvas.data[i], res.highlightColor)
IsShadow(res, i) == SameRGB(res.canvas.data[i], res.shadowColor)

\* C26: in raster mode the render with isReversed toggled has the threshold
\* map and the joined map of the render without, and at every pixel the
\* other colour of the pair; toggling a second time gives the first output
\* again; the render with the other palette has the same joined map and its
\* highlight colour at exactly the pixels that were highlight.
C26_Reversed ==
    (Returned /\ Raster) =>
        \E toggled \in { Rerender(EmptyCanvas, ~last.call.isReversed,
                                  last.call.useClassicColors) } :
        \E other \in { Rerender(EmptyCanvas, last.call.isReversed,
                                ~last.call.useClassicColors) } :
            /\ toggled.outcome = "returned" /\ other.outcome = "returned"
            /\ toggled.thresholdMap = last.thresholdMap
            /\ toggled.joinedMap = last.joinedMap
            /\ toggled.shadowColor = last.highlightColor
            /\ toggled.highlightColor = last.shadowColor
            /\ \A i \in Pixels :
                  /\ last.joinedMap[i] = 1 =>
                        (SameRGB(canvas.data[i], last.highlightColor) /\ IsHighlight(toggled, i))
                  /\ last.joinedMap[i] = 0 =>
                        (SameRGB(canvas.data[i], last.shadowColor) /\ IsShadow(toggled, i))
            /\ ShadowColor(palette, ~(~last.call.isReversed),
                           last.call.useClassicColors) = last.shadowColor
            /\ HighlightColor(palette, ~(~last.call.isReversed),
                              last.call.useClassicColors) = last.highlightColor
            /\ other.thresholdMap = last.thresholdMap
            /\ other.joinedMap = last.joinedMap
            /\ \A i \in Pixels :
                  SameRGB(canvas.data[i], last.highlightColor) <=> IsHighlight(other, i)

\* a reversed raster render whose output has highlight and shadow pixels
C26_Witness ==
    /\ Returned /\ Raster /\ last.call.isReversed
    /\ \E i \in Pixels : last.joinedMap[i] = 1
    /\ \E i \in Pixels : last.joinedMap[i] = 0

(***************************************************************************)
(* C27                                                                     *)
(***************************************************************************)
\* the positions of the events of the given names in a job's event list
Positions(job, names) == { k \in 1..Len(job.events) : job.events[k] \in names }
Settlements(job) == Positions(job, {"resolve", "reject"})
Revocations(job) == Positions(job, {"revokeObjectURL"})
Dispatches(job) == Positions(job, {"load", "error"})

\* C27: the promise of every processDuotoneImage call is settled at most
\* once, and once when the load or error event has been handled: resolved
\* with the result when processImageOnCanvas returned, rejected with its
\* error when it threw, rejected with "Failed to load image" and without a
\* call of processImageOnCanvas when the image failed to load.  The object
\* URL is revoked once, after the event and before the promise is settled,
\* and not before the event.
C27_Promise ==
    \A j \in 1..Len(jobs) :
        LET job == jobs[j]
        IN  /\ Cardinality(Settlements(job)) <= 1
            /\ Cardinality(Revocations(job)) <= 1
            /\ Cardinality(Dispatches(job)) <= 1
            /\ job.promise = "pending" <=> Settlements(job) = {}
            /\ Dispatches(job) = {} => (Settlements(job) = {} /\ Revocations(job) = {})
            /\ Dispatches(job) # {} =>
                  \E d \in Dispatches(job), r \in Revocations(job), s \in Settlements(job) :
                      d < r /\ r < s
            /\ (Positions(job, {"load"}) # {} /\ job.outcome = "returned") =>
                  (job.promise = "resolved" /\ job.value = job.result /\ job.result # <<>>)
            /\ (Positions(job, {"load"}) # {} /\ job.outcome = "threw") =>
                  (job.promise = "rejected" /\ job.value = <<"IndexSizeError">>)
            /\ (Positions(job, {"load"}) # {} /\ job.outcome = "nocontext") =>
                  (job.promise = "rejected" /\ job.value = <<"Could not get canvas context">>)
            /\ Positions(job, {"error"}) # {} =>
                  /\ job.promise = "rejected"
                  /\ job.value = <<"Failed to load image">>
                  /\ Positions(job, {"processImageOnCanvas"}) = {}

\* two calls of which the second has been rejected for a failed load
\* and the first, whose image loaded later, has been resolved
C27_Witness ==
    /\ Len(jobs) >= 2
    /\ jobs[1].promise = "resolved" /\ last.call = jobs[1].call
    /\ jobs[2].promise = "rejected" /\ Positions(jobs[2], {"error"}) # {}

(***************************************************************************)
(* C28                                                                     *)
(***************************************************************************)
\* the URLs revoked so far and the URL of the current processedImage
RevokedUrls == { page.revoked[k] : k \in 1..Len(page.revoked) }
CurrentUrls == IF page.processedImage = <<>> THEN {} ELSE { page.processedImage[1].url }

CellPixels(gridX, gridY) ==
    { i \in 1..(screen.args.width * screen.args.height) :
        /\ ((i - 1) % screen.args.width) \div 12 = gridX
        /\ ((i - 1) \div screen.args.width) \div 12 = gridY }

\* the sum of value * (number of the given pixels of that luminance)
RECURSIVE WeightedSum(_, _)
WeightedSum(values, pixels) ==
    IF values = {} THEN 0
    ELSE LET v == CHOOSE value \in values : TRUE
         IN  v * Cardinality({ i \in pixels : Luminance(screen.args.imageData[i]) = v })
             + WeightedSum(values \ { v }, pixels)

\* n of the claim: the contrast-enhanced, normalized average luminance of the
\* in-bounds pixels of a cell
CellTone(pixels, darkest, lightest) ==
    LET total == WeightedSum({ Luminance(screen.args.imageData[i]) : i \in pixels },
                             pixels)
    IN  enhanceContrast(Normalize(total \div Cardinality(pixels), darkest,
                                  LuminanceRange(darkest, lightest)))

\* what the claim says of one visited cell, given its tone n
CellAsClaimed(d, pixels, n) ==
        /\ d.normalizedLuminance = n
        /\ 10 * n <= 2 * FP =>
              /\ d.shape = "none"
              /\ \A i \in pixels : screen.surface[i] = "shadow"
        /\ 10 * n >= 8 * FP =>
              /\ d.shape = "rect"
              /\ pixels = { i \in 1..Len(screen.surface) :
                              /\ d.startX <= (i - 1) % screen.args.width
                              /\ (i - 1) % screen.args.width < d.endX
                              /\ d.startY <= (i - 1) \div screen.args.width
                              /\ (i - 1) \div screen.args.width < d.endY }
              /\ \A i \in pixels : screen.surface[i] = "highlight"
        /\ (10 * n > 2 * FP /\ 10 * n < 8 * FP) =>
              \* radius > 1, with radius = ((n - 0.2) / 0.6) * 5.1
              /\ d.shape = "disc" <=> (10 * n - 2 * FP) * 51 > 60 * FP
              /\ d.shape # "rect"
              /\ d.shape = "none" => \A i \in pixels : screen.surface[i] = "shadow"
              /\ d.shape = "disc" =>
                    /\ d.centerX = 12 * d.gridX + 6
                    /\ d.centerY = 12 * d.gridY + 6
                    /\ d.radius * 60 <= (10 * n - 2 * FP) * 51
                    /\ (10 * n - 2 * FP) * 51 < (d.radius + 1) * 60
                    /\ \A i \in pixels :
                          LET cover == DiscCoverage((i - 1) % screen.args.width,
                                                    (i - 1) \div screen.args.width,
                                                    d.centerX, d.centerY, d.radius)
                          IN  screen.surface[i] =
                                 IF cover = "all" THEN "highlight"
                                 ELSE IF cover = "none" THEN "shadow" ELSE "blend"

\* C21: in the solid-block screen print (cell size 12) every visited cell is
\* treated by its tone n, the contrast-enhanced normalized average luminance of
\* its in-bounds pixels: n <= 0.2 draws nothing and leaves the cell in the
\* shadow colour, n >= 0.8 fills the cell clipped to the image with the
\* highlight colour, and in between a highlight disc of radius
\* ((n - 0.2) / 0.6) * (12 * 0.85) / 2 centred on the cell is drawn exactly when
\* that radius exceeds 1; the cells are visited once each, row by row, and
\* when the call returns they cover every pixel of the image
C21_SolidBlocks ==
    screen.pc \in { "cells", "done" } =>
        LET cols == (screen.args.width + 11) \div 12
            rows == (screen.args.height + 11) \div 12
        IN  /\ \A darkest \in { MinLuminance(screen.args.imageData) } :
               \A lightest \in { MaxLuminance(screen.args.imageData) } :
               \A k \in 1..Len(screen.draws) :
                  /\ screen.draws[k].gridX = (k - 1) % cols
                  /\ screen.draws[k].gridY = (k - 1) \div cols
                  /\ screen.draws[k].gridY < rows
                  /\ \A pixels \in { CellPixels(screen.draws[k].gridX,
                                                screen.draws[k].gridY) } :
                        CellAsClaimed(screen.draws[k], pixels,
                                      CellTone(pixels, darkest, lightest))
            /\ screen.pc = "done" =>
                  /\ Len(screen.draws) = cols * rows
                  /\ \A i \in 1..Len(screen.surface) :
                        Cardinality({ k \in 1..Len(screen.draws) :
                            /\ screen.draws[k].gridX = ((i - 1) % screen.args.width) \div 12
                            /\ screen.draws[k].gridY = ((i - 1) \div screen.args.width) \div 12
                            /\ i \in CellPixels(screen.draws[k].gridX,
                                                screen.draws[k].gridY) }) = 1

\* a finished print of an image wider and taller than one cell with a cell left
\* in shadow, a clipped cell filled, a cell with a disc and a cell whose disc is
\* too small to draw
C21_Witness ==
    /\ screen.pc = "done"
    /\ screen.args.width > HalftoneCellSize
    /\ screen.args.height > HalftoneCellSize
    /\ \E a, b, c, d \in 1..Len(screen.draws) :
          /\ IsSolidShadow(screen.draws[a].normalizedLuminance)
          /\ screen.draws[b].shape = "rect"
          /\ screen.draws[b].endX - screen.draws[b].startX < HalftoneCellSize
          /\ screen.draws[c].shape = "disc"
          /\ screen.draws[d].shape = "none"
          /\ ~IsSolidShadow(screen.draws[d].normalizedLuminance)

====
